---- MODULE Spec2Model ----
(***************************************************************************)
(* godepfind: the dependency-graph cache and ownership resolver of         *)
(* GoDepFind (godepfind.go, cache.go).  One engine, one caller at a time.  *)
(*                                                                         *)
(* A path string is a record [abs, segs]: "/w/p/app/main.go" is            *)
(* [abs |-> TRUE, segs |-> <<"w","p","app","main.go">>], "." is the         *)
(* relative path with no segment, and the empty string "" is EmptyStr.     *)
(* An import path ("m/app") is the sequence of its segments.               *)
(***************************************************************************)
EXTENDS Naturals, Integers, Sequences, FiniteSets, TLC

\* ------------------------------------------------------------------ bounds

\* number of changes the file system undergoes in one behaviour
MaxFsOps == 2

\* ------------------------------------------------------------------ paths

P(abs, segs) == [abs |-> abs, segs |-> segs]

\* the empty string, as an argument of New and ThisFileIsMine
EmptyStr == P(FALSE, <<"">>)

\* the working directory of the process (os.Getwd), the module root
Cwd == <<"w", "p">>

IsAbs(p) == p.abs

\* filepath.Clean on a segment list: "." dropped, "x/.." resolved
RECURSIVE CleanSegs(_, _)
CleanSegs(done, rest) ==
    IF rest = <<>> THEN done
    ELSE LET s == Head(rest) IN
         IF s = "." \/ s = "" THEN CleanSegs(done, Tail(rest))
         ELSE IF s = ".." /\ done # <<>> /\ done[Len(done)] # ".."
              THEN CleanSegs(SubSeq(done, 1, Len(done) - 1), Tail(rest))
         ELSE CleanSegs(Append(done, s), Tail(rest))

Clean(p) == P(p.abs, CleanSegs(<<>>, p.segs))

\* filepath.Join(a, b): the elements joined with a separator, then cleaned
Join(a, b) == Clean(P(a.abs, a.segs \o b.segs))

\* filepath.Abs: a relative path is joined to the working directory
Abs(p) == IF IsAbs(p) THEN Clean(p) ELSE Join(P(TRUE, Cwd), p)

\* filepath.Base: the last element; "." for a path without elements
Base(p) == IF p.segs = <<>> THEN "." ELSE p.segs[Len(p.segs)]

\* filepath.Dir: all but the last element, cleaned
Dir(p) == IF p.segs = <<>> THEN p
          ELSE Clean(P(p.abs, SubSeq(p.segs, 1, Len(p.segs) - 1)))

\* length of the longest common prefix of two segment lists
RECURSIVE CommonLen(_, _)
CommonLen(a, b) ==
    IF a = <<>> \/ b = <<>> \/ Head(a) # Head(b) THEN 0
    ELSE 1 + CommonLen(Tail(a), Tail(b))

\* filepath.Rel(base, targ): fails when only one of the two is absolute
Rel(base, targ) ==
    LET b == Clean(base)
        t == Clean(targ)
        n == CommonLen(b.segs, t.segs)
    IN IF b.abs # t.abs THEN [err |-> TRUE, path |-> P(FALSE, <<>>)]
       ELSE [err  |-> FALSE,
             path |-> P(FALSE, [i \in 1..(Len(b.segs) - n) |-> ".."]
                               \o SubSeq(t.segs, n + 1, Len(t.segs)))]

\* strings.TrimPrefix(s, root + "/"): root followed by a separator is a prefix
\* of s only when both start alike ("/" or not), root has an element ("./" and
\* "//" never start a clean path) and s continues below root
TrimPrefix(s, root) ==
    IF /\ s.abs = root.abs
       /\ root.segs # <<>>
       /\ Len(s.segs) > Len(root.segs)
       /\ SubSeq(s.segs, 1, Len(root.segs)) = root.segs
    THEN P(FALSE, SubSeq(s.segs, Len(root.segs) + 1, Len(s.segs)))
    ELSE s

\* filepath.Ext of a file name of the tree
Ext(name) == IF name \in {"main.go", "main.wasm.go", "lib.go", "db.go"} THEN ".go"
             ELSE IF name = "notes.txt" THEN ".txt"
             ELSE ""

\* ------------------------------------------------------------- source tree

\* import paths of the module's packages ("go list ./..." prints these)
UApp == <<"m", "app">>
UWeb == <<"m", "web">>
ULib == <<"m", "lib">>
UDb  == <<"m", "db">>
Units == {UApp, UWeb, ULib, UDb}

\* the empty import path "" (no package)
NoPkg == <<>>

\* the package clause of the files of a unit's directory
PkgName(u) == IF u \in {UApp, UWeb} THEN "main" ELSE u[Len(u)]

File(segs) == P(TRUE, Cwd \o segs)

FAppMain == File(<<"app", "main.go">>)
FWebMain == File(<<"web", "main.go">>)
FLib     == File(<<"lib", "lib.go">>)
FDb      == File(<<"db", "db.go">>)
\* go list skips testdata directories and files that are not Go files: files
\* no unit ever lists
FOutMain == File(<<"testdata", "main.go">>)
FNotes   == File(<<"docs", "notes.txt">>)

UnitFiles    == {FAppMain, FWebMain, FLib, FDb}
OutsideFiles == {FOutMain, FNotes}
AllFiles     == UnitFiles \cup OutsideFiles

\* the directory of a unit below the module root: the import path without
\* the module name
UnitRel(u) == P(FALSE, Tail(u))

\* the unit a file of the tree is compiled into
UnitOf(f) == CHOOSE u \in Units : Dir(f) = Join(P(TRUE, Cwd), UnitRel(u))

\* a fixed order of the import paths, the order go/build sorts Imports in
UnitOrder == <<UApp, UDb, ULib, UWeb>>

RECURSIVE SortedFrom(_, _)
SortedFrom(order, S) ==
    IF order = <<>> THEN <<>>
    ELSE IF Head(order) \in S THEN <<Head(order)>> \o SortedFrom(Tail(order), S)
    ELSE SortedFrom(Tail(order), S)

Sorted(S) == SortedFrom(UnitOrder, S)

\* ---------------------------------------------------------------- queries

Events  == {"create", "write", "remove", "rename"}
HApp    == P(FALSE, <<"app", "main.go">>)
HWeb    == P(FALSE, <<"web", "main.go">>)
Handles == {HApp, HWeb}
HandleArgs == Handles \cup {EmptyStr}
FileArgs   == AllFiles \cup {EmptyStr}
RootArgs   == {EmptyStr, P(TRUE, Cwd)}

\* files the environment removes, creates again, leaves half-written
Removable  == {FAppMain, FDb, FNotes}
Corruptible == {FWebMain}
\* imports the environment adds to or drops from a unit's files
Editable == {<<UWeb, UDb>>}
\* the units whose metadata may fail to load
Unloadable == {UDb}

VARIABLES
    \* the GoDepFind struct
    rootDir, cachedModule, packageCache, dependencyGraph, reverseDeps,
    filePathToPackage, fileToPackages, mainPackages,
    \* the file system and the go tool
    diskFiles, diskBad, diskImports, listerOK, unloadable, fsOps,
    \* the last call of ThisFileIsMine and what it returned
    last,
    \* the list the last call of GoFileComesFromMain returned
    mainsResult,
    imports,
    walk,
    \* a call of ThisFileIsMine under way in a second goroutine: the read of
    \* a field it makes next, what it has read so far, and its answer
    reading,
    \* a call of rebuildCache under way in another goroutine: the statement it
    \* executes next, its local variables and the cache it started from
    rebuilding,
    \* history: the file the environment may remove whose remove event was
    \* answered last, with no create event of it since (a set of one file at
    \* most: the latest removal is the one followed); the imports added to an entry's main file that the ready
    \* cache did not know, and those of them a write event of the entry's main
    \* file replayed
    removed, edited, replayed

vars == <<rootDir, cachedModule, packageCache, dependencyGraph, reverseDeps,
          filePathToPackage, fileToPackages, mainPackages,
          diskFiles, diskBad, diskImports, listerOK, unloadable, fsOps, last,
          mainsResult, imports, walk, reading, rebuilding, removed, edited, replayed>>

\* ------------------------------------------------------------ Go maps, slices

Has(m, k)    == k \in DOMAIN m
Put(m, k, v) == [x \in (DOMAIN m) \cup {k} |-> IF x = k THEN v ELSE m[x]]
Del(m, k)    == [x \in (DOMAIN m) \ {k} |-> m[x]]
\* m[k] of a map of slices: the nil slice when the key is absent
Get(m, k)    == IF Has(m, k) THEN m[k] ELSE <<>>
EmptyMap     == [x \in {} |-> <<>>]

Range(s) == {s[i] : i \in 1..Len(s)}

\* the orders in which a range loop may visit the keys of a map
Orders(S) == {o \in [1..Cardinality(S) -> S] : Range(o) = S}

\* the keys of order o that pass the test, in the order of o
RECURSIVE Filter(_, _)
Filter(o, S) ==
    IF o = <<>> THEN <<>>
    ELSE IF Head(o) \in S THEN <<Head(o)>> \o Filter(Tail(o), S)
    ELSE Filter(Tail(o), S)

contains(slice, item) == item \in Range(slice)

\* the slice without the first occurrence of item
RECURSIVE removeString(_, _)
removeString(slice, item) ==
    IF slice = <<>> THEN <<>>
    ELSE IF Head(slice) = item THEN Tail(slice)
    ELSE <<Head(slice)>> \o removeString(Tail(slice), item)

\* ------------------------------------------------------------------ engine

\* the cache fields of the engine, as one value
G == [cachedModule      |-> cachedModule,
      packageCache      |-> packageCache,
      dependencyGraph   |-> dependencyGraph,
      reverseDeps       |-> reverseDeps,
      filePathToPackage |-> filePathToPackage,
      fileToPackages    |-> fileToPackages,
      mainPackages      |-> mainPackages]

New(rootDirArg) ==
    [rootDir |-> IF rootDirArg = EmptyStr THEN P(FALSE, <<>>) ELSE rootDirArg,
     g |-> [cachedModule      |-> FALSE,
            packageCache      |-> EmptyMap,
            dependencyGraph   |-> EmptyMap,
            reverseDeps       |-> EmptyMap,
            filePathToPackage |-> EmptyMap,
            fileToPackages    |-> EmptyMap,
            mainPackages      |-> <<>>]]

\* directory d lies above file f
IsDirOf(d, f) == /\ d.abs = f.abs
                 /\ Len(d.segs) < Len(f.segs)
                 /\ SubSeq(f.segs, 1, Len(d.segs)) = d.segs

\* os.Stat(path) succeeds: a file of the disk, or a directory that holds one
Exists(p) == \/ Abs(p) \in diskFiles
             \/ \E f \in diskFiles : IsDirOf(Abs(p), f)

\* the Go files of a directory that go/build reads
GoFilesIn(dir) == {Base(f) : f \in {x \in diskFiles :
                        Dir(x) = Abs(dir) /\ Ext(Base(x)) = ".go"}}

\* "go list ./..." run in rootDir: the import paths of the directories below
\* the root that hold Go files, or the failure of the command
listPackages ==
    IF ~listerOK THEN [err |-> TRUE, paths |-> <<>>]
    ELSE [err   |-> FALSE,
          paths |-> Sorted({u \in Units :
                       GoFilesIn(Join(rootDir, UnitRel(u))) # {}})]

\* build.ImportDir(dir): Imports holds the backing array of the slice
ImportDir(u, dir) ==
    [Dir     |-> dir,
     Name    |-> PkgName(u),
     GoFiles |-> GoFilesIn(dir),
     Imports |-> Sorted(diskImports[u])]

\* the module name dropped from the import path, the rest joined to rootDir;
\* the first package that cannot be loaded ends the loop with its error
getPackages(paths) ==
    IF Range(paths) \cap unloadable # {}
    THEN [err |-> TRUE, packages |-> EmptyMap]
    ELSE [err      |-> FALSE,
          packages |-> [u \in Range(paths) |->
                           ImportDir(u, Join(rootDir, UnitRel(u)))]]

\* the ways rebuildCache may end: its three range loops over the packages map
\* each visit the keys in an order of their own
rebuildCache(g) ==
    LET listed == listPackages IN
    IF listed.err \/ getPackages(listed.paths).err
    THEN {[err |-> TRUE, g |-> g]}
    ELSE
      LET packages == getPackages(listed.paths).packages
          keys     == DOMAIN packages
          orders   == Orders(keys)
          imported == UNION {Range(packages[u].Imports) : u \in keys}
          names    == UNION {packages[u].GoFiles : u \in keys}
          paths    == {<<u, n>> \in keys \X names : n \in packages[u].GoFiles}
          graph    == [u \in keys |-> packages[u].Imports]
          revs     == {[imp \in imported |->
                           Filter(o, {u \in keys :
                               imp \in Range(packages[u].Imports)})]
                       : o \in orders}
          byPath   == [k \in {Join(packages[x[1]].Dir, P(FALSE, <<x[2]>>))
                              : x \in paths} |->
                         CHOOSE u \in keys :
                             /\ Base(k) \in packages[u].GoFiles
                             /\ Join(packages[u].Dir, P(FALSE, <<Base(k)>>)) = k]
          byName   == {[n \in names |->
                           Filter(o, {u \in keys : n \in packages[u].GoFiles})]
                       : o \in orders}
          mains    == {Filter(o, {u \in keys : packages[u].Name = "main"})
                       : o \in orders}
      IN {[err |-> FALSE,
           g   |-> [cachedModule      |-> TRUE,
                    packageCache      |-> packages,
                    dependencyGraph   |-> graph,
                    reverseDeps       |-> r,
                    filePathToPackage |-> byPath,
                    fileToPackages    |-> n,
                    mainPackages      |-> m]]
          : r \in revs, n \in byName, m \in mains}

\* rebuildCache a statement at a time, as a goroutine that holds no lock goes
\* through it.  w is the goroutine: pc is the line of cache.go it executes
\* next, packages the local map of line 201, todo the keys the range loop it
\* is in has not visited, cur the key of the iteration, imps and files what
\* is left of the inner loops of lines 217 and 248; from remembers the cache
\* the call began with.  Each step makes one write to a field of the struct;
\* a range loop takes its keys in any order.

\* no rebuildCache is under way
NotRebuilding ==
    [pc |-> "idle", from |-> New(EmptyStr).g, packages |-> EmptyMap,
     todo |-> {}, cur |-> NoPkg, imps |-> <<>>, files |-> <<>>]

\* the order go/build lists the files of a directory in
FileOrder == <<"db.go", "lib.go", "main.go", "main.wasm.go">>

\* what is left of the loop of line 217, or the next key of the loop of 211
reverseNext(w, g) ==
    IF w.imps # <<>>
    THEN {[w |-> [w EXCEPT !.pc = IF Has(g.reverseDeps, Head(w.imps))
                                  THEN "221" ELSE "219"],
           g |-> g]}
    ELSE IF w.todo = {}
    THEN {[w |-> [w EXCEPT !.pc = "243", !.cur = NoPkg], g |-> g]}
    ELSE {[w |-> [w EXCEPT !.pc = "214", !.cur = u, !.todo = w.todo \ {u}],
           g |-> g] : u \in w.todo}

\* what is left of the loop of line 248, or the next key of the loop of 245
filesNext(w, g) ==
    IF w.files # <<>>
    THEN {[w |-> [w EXCEPT !.pc = "251"], g |-> g]}
    ELSE IF w.todo = {}
    THEN {[w |-> [w EXCEPT !.pc = "277", !.cur = NoPkg], g |-> g]}
    ELSE {[w |-> [w EXCEPT !.pc = "251", !.cur = u, !.todo = w.todo \ {u},
                           !.files = SortedFrom(FileOrder,
                                                w.packages[u].GoFiles)],
           g |-> g] : u \in w.todo}

\* the next key of the loop of line 278 that names a main package
mainsNext(w, g) ==
    IF w.todo = {}
    THEN {[w |-> [w EXCEPT !.pc = "285", !.cur = NoPkg], g |-> g]}
    ELSE {[w |-> [w EXCEPT !.pc = "280", !.cur = u, !.todo = w.todo \ {u}],
           g |-> g] : u \in w.todo}

rebuildStatement(g, w) ==
    LET listed == listPackages
        keys   == DOMAIN w.packages
        imp    == Head(w.imps)
        file   == Head(w.files)
    IN
    CASE w.pc = "idle" ->
           IF listed.err \/ getPackages(listed.paths).err
           THEN {[w |-> NotRebuilding, g |-> g]}
           ELSE {[w |-> [NotRebuilding EXCEPT
                            !.pc = "205", !.from = g,
                            !.packages = getPackages(listed.paths).packages],
                  g |-> g]}
      [] w.pc = "205" ->
           {[w |-> [w EXCEPT !.pc = "208"],
             g |-> [g EXCEPT !.packageCache = w.packages]]}
      [] w.pc = "208" ->
           {[w |-> [w EXCEPT !.pc = "209"],
             g |-> [g EXCEPT !.dependencyGraph = EmptyMap]]}
      [] w.pc = "209" ->
           reverseNext([w EXCEPT !.todo = keys],
                       [g EXCEPT !.reverseDeps = EmptyMap])
      [] w.pc = "214" ->
           reverseNext([w EXCEPT !.imps = w.packages[w.cur].Imports],
                       [g EXCEPT !.dependencyGraph =
                           Put(g.dependencyGraph, w.cur,
                               w.packages[w.cur].Imports)])
      [] w.pc = "219" ->
           {[w |-> [w EXCEPT !.pc = "221"],
             g |-> [g EXCEPT !.reverseDeps = Put(g.reverseDeps, imp, <<>>)]]}
      [] w.pc = "221" ->
           reverseNext([w EXCEPT !.imps = Tail(w.imps)],
                       [g EXCEPT !.reverseDeps =
                           Put(g.reverseDeps, imp,
                               Append(Get(g.reverseDeps, imp), w.cur))])
      [] w.pc = "243" ->
           {[w |-> [w EXCEPT !.pc = "244"],
             g |-> [g EXCEPT !.filePathToPackage = EmptyMap]]}
      [] w.pc = "244" ->
           filesNext([w EXCEPT !.todo = keys],
                     [g EXCEPT !.fileToPackages = EmptyMap])
      [] w.pc = "251" ->
           {[w |-> [w EXCEPT !.pc = "255"],
             g |-> [g EXCEPT !.filePathToPackage =
                       Put(g.filePathToPackage,
                           Join(w.packages[w.cur].Dir, P(FALSE, <<file>>)),
                           w.cur)]]}
      [] w.pc = "255" ->
           filesNext([w EXCEPT !.files = Tail(w.files)],
                     [g EXCEPT !.fileToPackages =
                         Put(g.fileToPackages, file,
                             Append(Get(g.fileToPackages, file), w.cur))])
      [] w.pc = "277" ->
           mainsNext([w EXCEPT !.todo = {u \in keys :
                                            w.packages[u].Name = "main"}],
                     [g EXCEPT !.mainPackages = <<>>])
      [] w.pc = "280" ->
           mainsNext(w, [g EXCEPT !.mainPackages =
                                      Append(g.mainPackages, w.cur)])
      [] w.pc = "285" ->
           {[w |-> NotRebuilding, g |-> [g EXCEPT !.cachedModule = TRUE]]}

\* ensureCacheInitialized marking the cache ready whether the scan worked or not
ensureCacheInitialized_AlwaysReady(g) ==
    IF ~g.cachedModule
    THEN {[err |-> r.err, g |-> [r.g EXCEPT !.cachedModule = TRUE]]
          : r \in rebuildCache(g)}
    ELSE {[err |-> FALSE, g |-> g]}

ensureCacheInitialized(g) ==
    IF ~g.cachedModule THEN rebuildCache(g) ELSE {[err |-> FALSE, g |-> g]}

RECURSIVE cachedImports(_, _, _, _)
RECURSIVE cachedImportsDeps(_, _, _, _)
RECURSIVE cachedImportsDeps_VisitedByValue(_, _, _, _)

\* the depth-first search of the import graph; visited is the one map all the
\* calls of a query share, so it is threaded through; trail lists the paths
\* the search marked visited, in the order it marked them
cachedImports(g, path, targetPkg, visited) ==
    IF path \in visited
    THEN [found |-> FALSE, visited |-> visited, trail |-> <<>>]
    ELSE LET v == visited \cup {path} IN
         IF path = targetPkg
         THEN [found |-> TRUE, visited |-> v, trail |-> <<path>>]
         ELSE IF Has(g.dependencyGraph, path)
              THEN LET r == cachedImportsDeps(g, g.dependencyGraph[path],
                                              targetPkg, v)
                   IN [r EXCEPT !.trail = <<path>> \o r.trail]
         ELSE [found |-> FALSE, visited |-> v, trail |-> <<path>>]

\* the loop over deps with a copy of visited given to each call
cachedImportsDeps_VisitedByValue(g, deps, targetPkg, visited) ==
    IF deps = <<>>
    THEN [found |-> FALSE, visited |-> visited, trail |-> <<>>]
    ELSE IF Head(deps) = targetPkg
    THEN [found |-> TRUE, visited |-> visited, trail |-> <<>>]
    ELSE LET r == cachedImports(g, Head(deps), targetPkg, visited) IN
         IF r.found THEN r
         ELSE LET rest == cachedImportsDeps_VisitedByValue(g, Tail(deps),
                                                           targetPkg, visited)
              IN [rest EXCEPT !.trail = r.trail \o rest.trail]

cachedImportsDeps(g, deps, targetPkg, visited) ==
    IF deps = <<>>
    THEN [found |-> FALSE, visited |-> visited, trail |-> <<>>]
    ELSE IF Head(deps) = targetPkg
    THEN [found |-> TRUE, visited |-> visited, trail |-> <<>>]
    ELSE LET r == cachedImports(g, Head(deps), targetPkg, visited) IN
         IF r.found THEN r
         ELSE LET rest == cachedImportsDeps(g, Tail(deps), targetPkg,
                                            r.visited)
              IN [rest EXCEPT !.trail = r.trail \o rest.trail]

cachedMainImportsPackage(g, mainPath, targetPkg) ==
    cachedImports(g, mainPath, targetPkg, {}).found

isMainPackage(g, pkgPath) == contains(g.mainPackages, pkgPath)

\* dropDependency leaving the lists of the others as they are
dropDependency_KeepEdges(g, pkg) == g

\* pkg taken out of every remaining list of the graph.  The list is edited in
\* place (append(deps[:i], deps[i+1:]...)) and shares its array with the
\* Imports of the cached package: that slice keeps its length and sees the
\* tail shifted
dropDependency(g, pkg) ==
    LET dg == g.dependencyGraph
        pc == g.packageCache
        hit(o) == Has(dg, o) /\ contains(dg[o], pkg)
    IN [g EXCEPT
          !.dependencyGraph = [o \in DOMAIN dg |-> removeString(dg[o], pkg)],
          !.packageCache =
              [o \in DOMAIN pc |->
                  IF hit(o)
                  THEN [pc[o] EXCEPT !.Imports =
                           removeString(dg[o], pkg)
                           \o SubSeq(pc[o].Imports, Len(dg[o]),
                                     Len(pc[o].Imports))]
                  ELSE pc[o]]]

\* invalidatePackages marking the cache as not built when it is done
RECURSIVE invalidatePackages_Uninitialize(_, _)
invalidatePackages_Uninitialize(g, packages) ==
    IF packages = <<>> THEN [g EXCEPT !.cachedModule = FALSE]
    ELSE LET pkg == Head(packages)
             cut == [g EXCEPT
                        !.packageCache    = Del(g.packageCache, pkg),
                        !.dependencyGraph = Del(g.dependencyGraph, pkg),
                        !.reverseDeps     = Del(g.reverseDeps, pkg)]
         IN invalidatePackages_Uninitialize(dropDependency(cut, pkg), Tail(packages))

RECURSIVE invalidatePackages(_, _)
invalidatePackages(g, packages) ==
    IF packages = <<>> THEN g
    ELSE LET pkg == Head(packages)
             cut == [g EXCEPT
                        !.packageCache    = Del(g.packageCache, pkg),
                        !.dependencyGraph = Del(g.dependencyGraph, pkg),
                        !.reverseDeps     = Del(g.reverseDeps, pkg)]
         IN invalidatePackages(dropDependency(cut, pkg), Tail(packages))

\* every package with a file of this name loses its cached package, its edges
\* and its place in the lists of the others
invalidatePackageCache(g, fileName) ==
    invalidatePackages(g, Get(g.fileToPackages, fileName))

RECURSIVE dropCached(_, _)
dropCached(g, packages) ==
    IF packages = <<>> THEN g
    ELSE dropCached([g EXCEPT !.packageCache = Del(g.packageCache, Head(packages))],
                    Tail(packages))

invalidatePackageCacheOnly(g, fileName) ==
    dropCached(g, Get(g.fileToPackages, fileName))

\* the packages of a map one of whose GoFiles is the file at absPath
Holders(packages, absPath) ==
    {u \in DOMAIN packages :
        \E file \in packages[u].GoFiles :
            Abs(Join(packages[u].Dir, P(FALSE, <<file>>))) = absPath}

\* the cached packages first, a scan of the tree when none of them has the file
findPackageContainingFileByPath(g, filePath) ==
    UNION {
      IF i.err THEN {[pkg |-> NoPkg, err |-> TRUE, g |-> i.g]}
      ELSE
        LET absPath == Abs(filePath)
            cached  == Holders(i.g.packageCache, absPath)
            listed  == listPackages
            loaded  == getPackages(listed.paths)
            scanned == Holders(loaded.packages, absPath)
        IN IF cached # {}
           THEN {[pkg |-> u, err |-> FALSE, g |-> i.g] : u \in cached}
           ELSE IF listed.err \/ loaded.err
           THEN {[pkg |-> NoPkg, err |-> TRUE, g |-> i.g]}
           ELSE IF scanned # {}
           THEN {[pkg |-> u, err |-> FALSE, g |-> i.g] : u \in scanned}
           ELSE {[pkg |-> NoPkg, err |-> FALSE, g |-> i.g]}
      : i \in ensureCacheInitialized(g)}

\* handleFileCreate writing the created file's package over the list of the
\* file name
handleFileCreate_Overwrite(g, fileName, filePath) ==
    {IF r.err THEN [err |-> TRUE, g |-> r.g]
     ELSE IF r.pkg # NoPkg
     THEN LET byPath == Put(r.g.filePathToPackage, Abs(filePath), r.pkg)
              byName == Put(r.g.fileToPackages, fileName, <<r.pkg>>)
          IN [err |-> FALSE,
              g   |-> invalidatePackageCache(
                          [r.g EXCEPT !.filePathToPackage = byPath,
                                      !.fileToPackages    = byName],
                          fileName)]
     ELSE [err |-> FALSE, g |-> r.g]
     : r \in findPackageContainingFileByPath(g, filePath)}

handleFileCreate(g, fileName, filePath) ==
    {IF r.err THEN [err |-> TRUE, g |-> r.g]
     ELSE IF r.pkg # NoPkg
     THEN LET byPath == Put(r.g.filePathToPackage, Abs(filePath), r.pkg)
              old    == Get(r.g.fileToPackages, fileName)
              byName == IF contains(old, r.pkg) THEN r.g.fileToPackages
                        ELSE Put(r.g.fileToPackages, fileName, Append(old, r.pkg))
          IN [err |-> FALSE,
              g   |-> invalidatePackageCache(
                          [r.g EXCEPT !.filePathToPackage = byPath,
                                      !.fileToPackages    = byName],
                          fileName)]
     ELSE [err |-> FALSE, g |-> r.g]
     : r \in findPackageContainingFileByPath(g, filePath)}

\* the error of the package lookup is dropped (pkg, _ := ...)
handleFileRemove(g, fileName, filePath) ==
    LET cut == IF filePath # EmptyStr
               THEN [g EXCEPT !.filePathToPackage =
                                  Del(g.filePathToPackage, Abs(filePath))]
               ELSE g
    IN IF filePath = EmptyStr
       THEN {[err |-> FALSE, g |-> invalidatePackageCache(cut, fileName)]}
       ELSE {LET byName ==
                   IF r.pkg # NoPkg
                   THEN Put(r.g.fileToPackages, fileName,
                            removeString(Get(r.g.fileToPackages, fileName), r.pkg))
                   ELSE r.g.fileToPackages
             IN [err |-> FALSE,
                 g   |-> invalidatePackageCache(
                             [r.g EXCEPT !.fileToPackages = byName], fileName)]
             : r \in findPackageContainingFileByPath(cut, filePath)}

\* both paths made absolute, a relative one below rootDir
isSameFile(filePath1, filePath2) ==
    LET abs1 == IF IsAbs(filePath1) THEN Abs(filePath1)
                ELSE Abs(Join(rootDir, filePath1))
        abs2 == IF IsAbs(filePath2) THEN Abs(filePath2)
                ELSE Abs(Join(rootDir, filePath2))
    IN abs1 = abs2

rescanMainPackageDependencies(g, mainFilePath) == rebuildCache(g)

\* updateCacheForFileWithContext taking "delete" for "remove"
updateCacheForFileWithContext_DeleteRemoves(g, fileName, filePath, event, handlerMainFile) ==
    UNION {
      IF i.err THEN {i}
      ELSE CASE event = "write" ->
                  IF handlerMainFile # EmptyStr /\ isSameFile(filePath, handlerMainFile)
                  THEN rescanMainPackageDependencies(i.g, filePath)
                  ELSE {[err |-> FALSE, g |-> invalidatePackageCacheOnly(i.g, fileName)]}
             [] event = "create" -> handleFileCreate(i.g, fileName, filePath)
             [] event \in {"remove", "delete"} ->
                  handleFileRemove(i.g, fileName, filePath)
             [] event = "rename" ->
                  UNION {IF r.err THEN {r}
                         ELSE handleFileCreate(r.g, fileName, filePath)
                         : r \in handleFileRemove(i.g, fileName, filePath)}
             [] OTHER -> {i}
      : i \in ensureCacheInitialized(g)}

\* updateCacheForFileWithContext whose rename stops after the remove
updateCacheForFileWithContext_RenameRemoves(g, fileName, filePath, event, handlerMainFile) ==
    UNION {
      IF i.err THEN {i}
      ELSE CASE event = "write" ->
                  IF handlerMainFile # EmptyStr /\ isSameFile(filePath, handlerMainFile)
                  THEN rescanMainPackageDependencies(i.g, filePath)
                  ELSE {[err |-> FALSE, g |-> invalidatePackageCacheOnly(i.g, fileName)]}
             [] event = "create" -> handleFileCreate(i.g, fileName, filePath)
             [] event \in {"remove", "rename"} ->
                  handleFileRemove(i.g, fileName, filePath)
             [] OTHER -> {i}
      : i \in ensureCacheInitialized(g)}

updateCacheForFileWithContext(g, fileName, filePath, event, handlerMainFile) ==
    UNION {
      IF i.err THEN {i}
      ELSE CASE event = "write" ->
                  IF handlerMainFile # EmptyStr /\ isSameFile(filePath, handlerMainFile)
                  THEN rescanMainPackageDependencies(i.g, filePath)
                  ELSE {[err |-> FALSE, g |-> invalidatePackageCacheOnly(i.g, fileName)]}
             [] event = "create" -> handleFileCreate(i.g, fileName, filePath)
             [] event = "remove" -> handleFileRemove(i.g, fileName, filePath)
             [] event = "rename" ->
                  UNION {IF r.err THEN {r}
                         ELSE handleFileCreate(r.g, fileName, filePath)
                         : r \in handleFileRemove(i.g, fileName, filePath)}
             [] OTHER -> {i}
      : i \in ensureCacheInitialized(g)}

\* exact path, then the path relative to the working directory, then the
\* first package recorded for the file name
\* findPackageForFile looking the file name up before the path
findPackageForFile_NameFirst(g, fileAbsPath, fileName) ==
    {IF i.err THEN [pkg |-> NoPkg, err |-> TRUE, g |-> i.g]
     ELSE LET byPath  == i.g.filePathToPackage
              rel     == Rel(P(TRUE, Cwd), fileAbsPath)
              byName  == Get(i.g.fileToPackages, fileName)
          IN IF Len(byName) > 0
             THEN [pkg |-> byName[1], err |-> FALSE, g |-> i.g]
             ELSE IF Has(byPath, fileAbsPath)
             THEN [pkg |-> byPath[fileAbsPath], err |-> FALSE, g |-> i.g]
             ELSE IF ~rel.err /\ Has(byPath, rel.path)
             THEN [pkg |-> byPath[rel.path], err |-> FALSE, g |-> i.g]
             ELSE [pkg |-> NoPkg, err |-> FALSE, g |-> i.g]
     : i \in ensureCacheInitialized(g)}

findPackageForFile(g, fileAbsPath, fileName) ==
    {IF i.err THEN [pkg |-> NoPkg, err |-> TRUE, g |-> i.g]
     ELSE LET byPath  == i.g.filePathToPackage
              rel     == Rel(P(TRUE, Cwd), fileAbsPath)
              byName  == Get(i.g.fileToPackages, fileName)
          IN IF Has(byPath, fileAbsPath)
             THEN [pkg |-> byPath[fileAbsPath], err |-> FALSE, g |-> i.g]
             ELSE IF ~rel.err /\ Has(byPath, rel.path)
             THEN [pkg |-> byPath[rel.path], err |-> FALSE, g |-> i.g]
             ELSE IF Len(byName) > 0
             THEN [pkg |-> byName[1], err |-> FALSE, g |-> i.g]
             ELSE [pkg |-> NoPkg, err |-> FALSE, g |-> i.g]
     : i \in ensureCacheInitialized(g)}

\* the cached directory of mainPkg, relative to rootDir, is the handler's
DirIsHandlers(g, mainPkg, handlerDir) ==
    /\ Has(g.packageCache, mainPkg)
    /\ LET rel == Rel(rootDir, g.packageCache[mainPkg].Dir)
       IN ~rel.err /\ Clean(rel.path) = Clean(handlerDir)

doesPackageBelongToHandler(g, targetPkg, mainInputFileRelativePath) ==
    LET handlerDir == Dir(mainInputFileRelativePath)
        cachedRel  == Rel(rootDir, g.packageCache[targetPkg].Dir)
    IN IF isMainPackage(g, targetPkg)
       THEN IF Has(g.packageCache, targetPkg) /\ ~cachedRel.err
            THEN Clean(cachedRel.path) = Clean(handlerDir)
            ELSE Base(P(FALSE, targetPkg)) = Base(handlerDir)
       ELSE \E mainPkg \in Range(g.mainPackages) :
               /\ cachedMainImportsPackage(g, mainPkg, targetPkg)
               /\ DirIsHandlers(g, mainPkg, handlerDir)

\* checkPackageBasedOwnership dropping the cached metadata of the file's
\* packages before it resolves the file
checkPackageBasedOwnership_DropsCached(g, mainInputFileRelativePath, fileAbsPath, fileName) ==
    {IF r.err THEN [ok |-> FALSE, err |-> "scan failed", g |-> r.g]
     ELSE IF r.pkg = NoPkg THEN [ok |-> FALSE, err |-> "nil", g |-> r.g]
     ELSE [ok  |-> doesPackageBelongToHandler(r.g, r.pkg, mainInputFileRelativePath),
           err |-> "nil", g |-> r.g]
     : r \in findPackageForFile(invalidatePackageCacheOnly(g, fileName),
                                fileAbsPath, fileName)}

\* checkPackageBasedOwnership taking a file of no package for the handler's
checkPackageBasedOwnership_UnknownOwned(g, mainInputFileRelativePath, fileAbsPath, fileName) ==
    {IF r.err THEN [ok |-> FALSE, err |-> "scan failed", g |-> r.g]
     ELSE IF r.pkg = NoPkg THEN [ok |-> TRUE, err |-> "nil", g |-> r.g]
     ELSE [ok  |-> doesPackageBelongToHandler(r.g, r.pkg, mainInputFileRelativePath),
           err |-> "nil", g |-> r.g]
     : r \in findPackageForFile(g, fileAbsPath, fileName)}

checkPackageBasedOwnership(g, mainInputFileRelativePath, fileAbsPath, fileName) ==
    {IF r.err THEN [ok |-> FALSE, err |-> "scan failed", g |-> r.g]
     ELSE IF r.pkg = NoPkg THEN [ok |-> FALSE, err |-> "nil", g |-> r.g]
     ELSE [ok  |-> doesPackageBelongToHandler(r.g, r.pkg, mainInputFileRelativePath),
           err |-> "nil", g |-> r.g]
     : r \in findPackageForFile(g, fileAbsPath, fileName)}

\* the content validator, (bool, error): a complete Go file is valid, a file
\* cut short is not, neither with an error; of a file that is not on disk the
\* validator says "not valid", or it fails with an error
IsValidGoFile(filePath) ==
    IF Abs(filePath) \notin diskFiles
    THEN {[valid |-> FALSE, err |-> FALSE], [valid |-> FALSE, err |-> TRUE]}
    ELSE {[valid |-> Abs(filePath) \notin diskBad, err |-> FALSE]}

\* the validator lets the file through: isValid with no error
passesValidator(filePath) ==
    [valid |-> TRUE, err |-> FALSE] \in IsValidGoFile(filePath)

\* steps 5 to 7: the handler's own main file goes to the cache update and is
\* owned; any other file is resolved through its package
\* resolveOwnership answering true for the own main file whatever the
\* cache update returned
resolveOwnership_OwnedOnError(g, mainInputFileRelativePath, fileAbsPath, event) ==
    IF TrimPrefix(fileAbsPath, rootDir) = mainInputFileRelativePath
    THEN {[ok  |-> TRUE,
           err |-> IF u.err THEN "cache update failed" ELSE "nil",
           g   |-> u.g]
          : u \in updateCacheForFileWithContext(
                      g, Base(fileAbsPath), fileAbsPath, event,
                      mainInputFileRelativePath)}
    ELSE checkPackageBasedOwnership(
             g, mainInputFileRelativePath, fileAbsPath, Base(fileAbsPath))

\* resolveOwnership sending every file's event to the cache update
resolveOwnership_UpdateAlways(g, mainInputFileRelativePath, fileAbsPath, event) ==
    UNION {IF u.err
           THEN {[ok |-> FALSE, err |-> "cache update failed", g |-> u.g]}
           ELSE IF TrimPrefix(fileAbsPath, rootDir) = mainInputFileRelativePath
           THEN {[ok |-> TRUE, err |-> "nil", g |-> u.g]}
           ELSE checkPackageBasedOwnership(
                    u.g, mainInputFileRelativePath, fileAbsPath, Base(fileAbsPath))
           : u \in updateCacheForFileWithContext(
                       g, Base(fileAbsPath), fileAbsPath, event,
                       mainInputFileRelativePath)}

resolveOwnership(g, mainInputFileRelativePath, fileAbsPath, event) ==
    LET fileName          == Base(fileAbsPath)
        relativeFilePath  == TrimPrefix(fileAbsPath, rootDir)
        isHandlerMainFile == relativeFilePath = mainInputFileRelativePath
    IN IF isHandlerMainFile
       THEN {IF u.err
             THEN [ok |-> FALSE, err |-> "cache update failed", g |-> u.g]
             ELSE [ok |-> TRUE, err |-> "nil", g |-> u.g]
             : u \in updateCacheForFileWithContext(
                         g, fileName, fileAbsPath, event,
                         mainInputFileRelativePath)}
       ELSE checkPackageBasedOwnership(
                g, mainInputFileRelativePath, fileAbsPath, fileName)

\* step 4: a Go file goes to the validator; its error ends the query with
\* an error, a file it turns down is skipped
\* validateTarget handing every file to the validator, whatever its extension
validateTarget_AnyExtension(g, mainInputFileRelativePath, fileAbsPath, event) ==
    UNION {IF v.err
           THEN {[ok |-> FALSE, err |-> "file validation failed", g |-> g]}
           ELSE IF ~v.valid
           THEN {[ok |-> FALSE, err |-> "nil", g |-> g]}
           ELSE resolveOwnership(g, mainInputFileRelativePath, fileAbsPath, event)
           : v \in IsValidGoFile(fileAbsPath)}

validateTarget(g, mainInputFileRelativePath, fileAbsPath, event) ==
    IF Ext(Base(fileAbsPath)) # ".go"
    THEN resolveOwnership(g, mainInputFileRelativePath, fileAbsPath, event)
    ELSE UNION {IF v.err
                THEN {[ok |-> FALSE, err |-> "file validation failed", g |-> g]}
                ELSE IF ~v.valid
                THEN {[ok |-> FALSE, err |-> "nil", g |-> g]}
                ELSE resolveOwnership(g, mainInputFileRelativePath,
                                      fileAbsPath, event)
                : v \in IsValidGoFile(fileAbsPath)}

\* steps 2 and 3: the file path made absolute, the handler's main file looked
\* up on disk
\* checkHandlerMain without the os.Stat of the handler's main file (step 3)
checkHandlerMain_NoStat(g, mainInputFileRelativePath, fileArg, event) ==
    validateTarget(g, mainInputFileRelativePath,
                   Abs(IF IsAbs(fileArg) THEN fileArg ELSE Join(rootDir, fileArg)),
                   event)

checkHandlerMain(g, mainInputFileRelativePath, fileArg, event) ==
    LET fileAbsPath == Abs(IF IsAbs(fileArg) THEN fileArg
                           ELSE Join(rootDir, fileArg))
        handlerMainAbsPath ==
            IF IsAbs(mainInputFileRelativePath) THEN mainInputFileRelativePath
            ELSE Join(rootDir, mainInputFileRelativePath)
    IN IF ~Exists(handlerMainAbsPath)
       THEN {[ok |-> FALSE, err |-> "handler main file does not exist", g |-> g]}
       ELSE validateTarget(g, mainInputFileRelativePath, fileAbsPath, event)

\* ThisFileIsMine building the cache before it looks at its arguments
ThisFileIsMine_ScanFirst(g, mainInputFileRelativePath, fileArg, event) ==
    UNION {IF fileArg = EmptyStr
           THEN {[ok |-> FALSE, err |-> "fileAbsPath cannot be empty", g |-> i.g]}
           ELSE IF mainInputFileRelativePath = EmptyStr
           THEN {[ok |-> FALSE, err |-> "handler path cannot be empty", g |-> i.g]}
           ELSE checkHandlerMain(i.g, mainInputFileRelativePath, fileArg, event)
           : i \in ensureCacheInitialized(g)}

\* ThisFileIsMine without its input validation (step 1)
ThisFileIsMine_NoInputCheck(g, mainInputFileRelativePath, fileArg, event) ==
    checkHandlerMain(g, mainInputFileRelativePath, fileArg, event)

ThisFileIsMine(g, mainInputFileRelativePath, fileArg, event) ==
    IF fileArg = EmptyStr
    THEN {[ok |-> FALSE, err |-> "fileAbsPath cannot be empty", g |-> g]}
    ELSE IF mainInputFileRelativePath = EmptyStr
    THEN {[ok |-> FALSE, err |-> "handler path cannot be empty", g |-> g]}
    ELSE checkHandlerMain(g, mainInputFileRelativePath, fileArg, event)

\* the main packages that reach a package holding a file of that name, in
\* the order of mainPackages, each once
\* GoFileComesFromMain looking at the first package of the file name only
GoFileComesFromMain_FirstCandidate(g, fileName) ==
    {IF i.err THEN [result |-> <<>>, err |-> TRUE, g |-> i.g]
     ELSE LET candidatePackages == Get(i.g.fileToPackages, fileName)
              importsFirst(mainPath) ==
                  cachedMainImportsPackage(i.g, mainPath, Head(candidatePackages))
          IN [result |-> IF candidatePackages = <<>> THEN <<>>
                         ELSE SelectSeq(i.g.mainPackages, importsFirst),
              err    |-> FALSE,
              g      |-> i.g]
     : i \in ensureCacheInitialized(g)}

GoFileComesFromMain(g, fileName) ==
    {IF i.err THEN [result |-> <<>>, err |-> TRUE, g |-> i.g]
     ELSE LET candidatePackages == Get(i.g.fileToPackages, fileName)
              importsOne(mainPath) ==
                  \E filePkg \in Range(candidatePackages) :
                      cachedMainImportsPackage(i.g, mainPath, filePkg)
          IN [result |-> IF candidatePackages = <<>> THEN <<>>
                         ELSE SelectSeq(i.g.mainPackages, importsOne),
              err    |-> FALSE,
              g      |-> i.g]
     : i \in ensureCacheInitialized(g)}

\* ------------------------------------------------------------ state machine

\* no cachedMainImportsPackage call made
NoImports == [from |-> NoPkg, to |-> NoPkg, found |-> FALSE, trail |-> <<>>]

\* no traversal of the import graph under way
NoWalk == [kind |-> "none", target |-> NoPkg, stack |-> <<>>, marked |-> {},
           ret |-> "none", status |-> "idle"]

\* no answer given
NoAnswer == [ok |-> FALSE, err |-> "none"]

\* no query of the second goroutine under way
NoReading ==
    [pc |-> "idle", h |-> EmptyStr, f |-> EmptyStr, pkg |-> NoPkg,
     mains |-> <<>>, path |-> NoPkg, stack |-> <<>>, visited |-> {},
     answer |-> NoAnswer, raced |-> FALSE]


NoCall == [h |-> EmptyStr, f |-> EmptyStr, ev |-> "none", ok |-> FALSE, err |-> "nil"]

DiskImports0 == [u \in Units |->
                    IF u = UApp THEN {ULib} ELSE IF u = ULib THEN {UDb} ELSE {}]

Init ==
    /\ \E a \in RootArgs :
          /\ rootDir           = New(a).rootDir
          /\ cachedModule      = New(a).g.cachedModule
          /\ packageCache      = New(a).g.packageCache
          /\ dependencyGraph   = New(a).g.dependencyGraph
          /\ reverseDeps       = New(a).g.reverseDeps
          /\ filePathToPackage = New(a).g.filePathToPackage
          /\ fileToPackages    = New(a).g.fileToPackages
          /\ mainPackages      = New(a).g.mainPackages
    /\ diskFiles   = AllFiles
    /\ diskBad     = {}
    /\ diskImports = DiskImports0
    /\ listerOK    = TRUE
    /\ unloadable  = {}
    /\ fsOps       = 0
    /\ last        = NoCall
    /\ mainsResult = <<>>
    /\ imports = NoImports
    /\ walk = NoWalk
    /\ reading = NoReading
    /\ rebuilding  = NotRebuilding
    /\ removed     = {}
    /\ edited      = {}
    /\ replayed    = {}

\* the handle of an entry unit, the file a handle names, the files of a unit
HandleOf(u)    == P(FALSE, Tail(u) \o <<"main.go">>)
HandlerMain(h) == Abs(Join(rootDir, h))
FilesOf(u)     == {f \in UnitFiles : UnitOf(f) = u}

\* the answers (bool, error) a query may give from cache g
Answers(g, h, f, ev) ==
    {[ok |-> o.ok, err |-> o.err] : o \in ThisFileIsMine(g, h, f, ev)}

Yes == [ok |-> TRUE, err |-> "nil"]
No  == [ok |-> FALSE, err |-> "nil"]

\* a write query of handle h for file f can answer (true, nil)
Owns(g, h, f) == Yes \in Answers(g, h, f, "write")

SetCache(g) ==
    /\ cachedModule'      = g.cachedModule
    /\ packageCache'      = g.packageCache
    /\ dependencyGraph'   = g.dependencyGraph
    /\ reverseDeps'       = g.reverseDeps
    /\ filePathToPackage' = g.filePathToPackage
    /\ fileToPackages'    = g.fileToPackages
    /\ mainPackages'      = g.mainPackages

\* a call ThisFileIsMine(h, f, ev), from the call to its return
QueryOf(h, f, ev) ==
    /\ last = NoCall
    /\ \E o \in ThisFileIsMine(G, h, f, ev) :
        /\ SetCache(o.g)
        /\ last' = [h |-> h, f |-> f, ev |-> ev, ok |-> o.ok, err |-> o.err]
        /\ replayed' = IF h \in Handles /\ f = HandlerMain(h) /\ ev = "write"
                          /\ o.ok /\ o.err = "nil"
                       THEN replayed \cup {e \in edited : HandleOf(e[1]) = h}
                       ELSE replayed
        /\ UNCHANGED <<rootDir, diskFiles, diskBad, diskImports, listerOK, unloadable, fsOps,
                       mainsResult, imports, walk, reading, rebuilding, removed, edited>>

\* the watcher, which calls one query at a time, calls ThisFileIsMine
Query == \E h \in HandleArgs, f \in FileArgs, ev \in Events : QueryOf(h, f, ev)

cacheVars == <<rootDir, cachedModule, packageCache, dependencyGraph, reverseDeps,
               filePathToPackage, fileToPackages, mainPackages, rebuilding>>

\* the watcher takes the answer and is ready for the next event
Return ==
    /\ last # NoCall
    /\ last' = NoCall
    /\ mainsResult' = <<>>
    /\ UNCHANGED imports
    /\ UNCHANGED walk
    /\ UNCHANGED reading
    /\ removed' = IF last.err # "nil" \/ last.f \notin Removable THEN removed
                  ELSE IF last.ev = "remove" THEN {last.f}
                  ELSE IF last.ev = "create" THEN removed \ {last.f}
                  ELSE removed
    /\ UNCHANGED <<cacheVars, diskFiles, diskBad, diskImports, listerOK, unloadable, fsOps,
                   edited, replayed>>

\* the file system changes between two queries
FsStep == /\ last = NoCall
          /\ fsOps < MaxFsOps
          /\ fsOps' = fsOps + 1
          /\ UNCHANGED <<cacheVars, last, mainsResult, imports, walk, reading>>

\* a change that is not an added import ends the edits being followed
NoEdit == edited' = {} /\ replayed' = {}

FsRemove ==
    \E f \in Removable \cap diskFiles :
        /\ FsStep
        /\ diskFiles' = diskFiles \ {f}
        /\ diskBad'   = diskBad \ {f}
        /\ NoEdit
        /\ UNCHANGED <<diskImports, listerOK, unloadable, removed>>

FsCreate ==
    \E f \in Removable \ diskFiles :
        /\ FsStep
        /\ diskFiles' = diskFiles \cup {f}
        /\ NoEdit
        /\ UNCHANGED <<diskBad, diskImports, listerOK, unloadable, removed>>

\* a file caught half-written, cut below its import block: the validator turns
\* it down, go list and go/build still read its package clause and imports
FsCorrupt ==
    \E f \in (Corruptible \cap diskFiles) \ diskBad :
        /\ FsStep
        /\ diskBad' = diskBad \cup {f}
        /\ NoEdit
        /\ UNCHANGED <<diskFiles, diskImports, listerOK, unloadable, removed>>

FsRepair ==
    \E f \in diskBad :
        /\ FsStep
        /\ diskBad' = diskBad \ {f}
        /\ NoEdit
        /\ UNCHANGED <<diskFiles, diskImports, listerOK, unloadable, removed>>

FsAddImport ==
    \E e \in Editable :
        /\ e[2] \notin diskImports[e[1]]
        /\ FsStep
        /\ diskImports' = [diskImports EXCEPT ![e[1]] = @ \cup {e[2]}]
        /\ edited' = IF cachedModule
                        /\ \A f \in FilesOf(e[2]) : ~Owns(G, HandleOf(e[1]), f)
                     THEN {e} ELSE {}
        /\ replayed' = {}
        /\ UNCHANGED <<diskFiles, diskBad, listerOK, unloadable, removed>>

FsDropImport ==
    \E e \in Editable :
        /\ e[2] \in diskImports[e[1]]
        /\ FsStep
        /\ diskImports' = [diskImports EXCEPT ![e[1]] = @ \ {e[2]}]
        /\ NoEdit
        /\ UNCHANGED <<diskFiles, diskBad, listerOK, unloadable, removed>>

\* the go command stops working (go.mod gone) or works again
FsBreakLister ==
    /\ listerOK
    /\ FsStep
    /\ listerOK' = FALSE
    /\ NoEdit
    /\ UNCHANGED <<diskFiles, diskBad, diskImports, unloadable, removed>>

FsFixLister ==
    /\ ~listerOK
    /\ FsStep
    /\ listerOK' = TRUE
    /\ NoEdit
    /\ UNCHANGED <<diskFiles, diskBad, diskImports, unloadable, removed>>

\* the metadata of one unit cannot be loaded (its directory is listed by the
\* go tool but go/build fails on it), or can be loaded again
FsBreakUnit ==
    \E u \in Unloadable \ unloadable :
        /\ FsStep
        /\ unloadable' = unloadable \cup {u}
        /\ NoEdit
        /\ UNCHANGED <<diskFiles, diskBad, diskImports, listerOK, removed>>

FsFixUnit ==
    \E u \in unloadable :
        /\ FsStep
        /\ unloadable' = unloadable \ {u}
        /\ NoEdit
        /\ UNCHANGED <<diskFiles, diskBad, diskImports, listerOK, removed>>

Next == \/ Query
        \/ Return
        \/ FsRemove \/ FsCreate \/ FsCorrupt \/ FsRepair
        \/ FsAddImport \/ FsDropImport
        \/ FsBreakLister \/ FsFixLister
        \/ FsBreakUnit \/ FsFixUnit

Spec == Init /\ [][Next]_vars

\* ------------------------------------------------ GoFileComesFromMain
\* The engine asked, between the watcher's queries and changes of some of
\* the tree's files, which entries a file name comes from.

MainsArgs == {"main.go", "lib.go", "db.go", "notes.txt"}

QueryMains ==
    /\ last = NoCall
    /\ \E fileName \in MainsArgs :
       \E o \in GoFileComesFromMain(G, fileName) :
        /\ SetCache(o.g)
        /\ last' = [h |-> EmptyStr, f |-> P(FALSE, <<fileName>>), ev |-> "mains",
                    ok |-> FALSE,
                    err |-> IF o.err THEN "scan failed" ELSE "nil"]
        /\ mainsResult' = o.result
        /\ UNCHANGED imports
        /\ UNCHANGED walk
        /\ UNCHANGED reading
        /\ UNCHANGED <<rootDir, diskFiles, diskBad, diskImports, listerOK,
                       unloadable, fsOps, rebuilding, removed, edited, replayed>>

NextMains == \/ QueryMains
             \/ Query
             \/ Return
             \/ FsRemove \/ FsCreate
             \/ FsBreakLister \/ FsFixLister

SpecMains == Init /\ [][NextMains]_vars

\* ------------------------------------------------- events of other names
\* The watcher also sends event strings the cache update has no case for:
\* "delete", which the doc comment of ThisFileIsMine lists, and "chmod".

OtherEvents == {"delete", "chmod"}

QueryOther ==
    /\ last = NoCall
    /\ \E h \in HandleArgs, f \in FileArgs, ev \in OtherEvents :
       \E o \in ThisFileIsMine(G, h, f, ev) :
        /\ SetCache(o.g)
        /\ last' = [h |-> h, f |-> f, ev |-> ev, ok |-> o.ok, err |-> o.err]
        /\ UNCHANGED <<rootDir, diskFiles, diskBad, diskImports, listerOK,
                       unloadable, fsOps, mainsResult, imports, walk, reading,
                       rebuilding, removed, edited, replayed>>

NextEvents == \/ QueryOther
              \/ Query
              \/ Return
              \/ FsRemove \/ FsCreate
              \/ FsBreakLister \/ FsFixLister

SpecEvents == Init /\ [][NextEvents]_vars

\* ------------------------------------------------- two callers, no lock
\* Two goroutines share the engine, and the struct has no mutex.  One is in
\* ThisFileIsMine for a write of an entry's own main file and goes through
\* rebuildCache a statement at a time (rebuilding).  The other is in
\* ThisFileIsMine for a file that is not its handle's own main file and goes
\* through checkPackageBasedOwnership a read of a field at a time (reading):
\*   "path"    filePathToPackage[fileAbsPath]        godepfind.go 140
\*   "rel"     filePathToPackage[relPath]            godepfind.go 147
\*   "name"    fileToPackages[fileName]              godepfind.go 154
\*   "isMain"  the range of isMainPackage            godepfind.go 366
\*   "case1"   the range over mainPackages           godepfind.go 168
\*   "cache1"  packageCache[mainPkg]                 godepfind.go 170
\*   "case2"   the range over mainPackages           godepfind.go 182
\*   "graph"   dependencyGraph[path]                 cache.go 373
\*   "cache2"  packageCache[mainPkg]                 godepfind.go 185
\* The steps of the two interleave in any way.  A range loop reads the slice
\* once; deps and the slice of a file name are read once from their map.

\* the runtime stops the program: a map read while the map is written
FatalRace == [ok |-> FALSE, err |-> "fatal error: concurrent map read and map write"]
\* the three words of a slice read while they are written: a length that is
\* not the length of the array read, and the program faults
FatalFault == [ok |-> FALSE, err |-> "fatal error: unexpected signal during runtime execution"]

\* the write of h's own main file reaches rebuildCache
RoutedToRebuild(h) ==
    /\ Exists(Join(rootDir, h))
    /\ passesValidator(HandlerMain(h))
    /\ TrimPrefix(HandlerMain(h), rootDir) = h
    /\ isSameFile(HandlerMain(h), h)

\* the query returns (ok, nil)
answerRead(r, ok) ==
    [r EXCEPT !.pc = "done", !.answer = IF ok THEN Yes ELSE No,
              !.pkg = NoPkg, !.mains = <<>>, !.path = NoPkg,
              !.stack = <<>>, !.visited = {}]

\* findPackageForFile without its exact path lookup
findPackageForFileRead_NoPathLookup(g, r) ==
    LET byName == Get(g.fileToPackages, Base(Abs(r.f)))
    IN IF r.pc \in {"path", "rel"} THEN [r EXCEPT !.pc = "name"]
       ELSE IF Len(byName) > 0
       THEN [r EXCEPT !.pkg = byName[1], !.pc = "isMain"]
       ELSE answerRead(r, FALSE)

\* findPackageForFile, one lookup
findPackageForFileRead(g, r) ==
    LET fileAbsPath == Abs(r.f)
        byPath      == g.filePathToPackage
        rel         == Rel(P(TRUE, Cwd), fileAbsPath)
        byName      == Get(g.fileToPackages, Base(fileAbsPath))
    IN CASE r.pc = "path" ->
              IF Has(byPath, fileAbsPath)
              THEN [r EXCEPT !.pkg = byPath[fileAbsPath], !.pc = "isMain"]
              ELSE [r EXCEPT !.pc = "rel"]
         [] r.pc = "rel" ->
              IF ~rel.err /\ Has(byPath, rel.path)
              THEN [r EXCEPT !.pkg = byPath[rel.path], !.pc = "isMain"]
              ELSE [r EXCEPT !.pc = "name"]
         [] r.pc = "name" ->
              IF Len(byName) > 0
              THEN [r EXCEPT !.pkg = byName[1], !.pc = "isMain"]
              ELSE answerRead(r, FALSE)

\* cachedMainImportsPackage(mainPkg, targetPkg) for the next main package of
\* the range of case 2: the first call of cachedImports, up to its lookup
startMain(r) ==
    IF r.mains = <<>> THEN answerRead(r, FALSE)
    ELSE LET m == Head(r.mains) IN
         IF m = r.pkg
         THEN [r EXCEPT !.pc = "cache2", !.path = NoPkg, !.stack = <<>>,
                        !.visited = {}]
         ELSE [r EXCEPT !.pc = "graph", !.path = m, !.stack = <<>>,
                        !.visited = {m}]

\* cachedImports from the deps it has read on: the loops of the calls on the
\* stack, up to the next lookup in dependencyGraph or the end of the search
RECURSIVE settle(_)
settle(r) ==
    IF r.stack = <<>>
    THEN startMain([r EXCEPT !.mains = Tail(r.mains)])
    ELSE LET n   == Len(r.stack)
             top == r.stack[n]
         IN IF top = <<>>
            THEN settle([r EXCEPT !.stack = SubSeq(r.stack, 1, n - 1)])
            ELSE LET dep == Head(top)
                     s   == [r EXCEPT !.stack[n] = Tail(top)]
                 IN IF dep = r.pkg
                    THEN [s EXCEPT !.pc = "cache2", !.path = NoPkg,
                                   !.stack = <<>>, !.visited = {}]
                    ELSE IF dep \in r.visited THEN settle(s)
                    ELSE [s EXCEPT !.pc = "graph", !.path = dep,
                                   !.visited = r.visited \cup {dep}]

\* cachedImports, its lookup of path in dependencyGraph
cachedImportsRead(g, r) ==
    settle([r EXCEPT !.stack = Append(r.stack, Get(g.dependencyGraph, r.path)),
                     !.path  = NoPkg])

\* doesPackageBelongToHandler, one read of mainPackages or packageCache
doesPackageBelongToHandlerRead(g, r) ==
    LET handlerDir == Dir(r.h)
        cachedRel  == Rel(rootDir, g.packageCache[r.pkg].Dir)
    IN CASE r.pc = "isMain" ->
              IF contains(g.mainPackages, r.pkg)
              THEN [r EXCEPT !.pc = "case1"]
              ELSE [r EXCEPT !.pc = "case2"]
         [] r.pc = "case1" ->
              IF contains(g.mainPackages, r.pkg)
              THEN [r EXCEPT !.pc = "cache1"]
              ELSE [r EXCEPT !.pc = "case2"]
         [] r.pc = "cache1" ->
              answerRead(r, IF Has(g.packageCache, r.pkg) /\ ~cachedRel.err
                            THEN Clean(cachedRel.path) = Clean(handlerDir)
                            ELSE Base(P(FALSE, r.pkg)) = Base(handlerDir))
         [] r.pc = "case2" ->
              startMain([r EXCEPT !.mains = g.mainPackages])
         [] r.pc = "cache2" ->
              IF DirIsHandlers(g, Head(r.mains), handlerDir)
              THEN answerRead(r, TRUE)
              ELSE startMain([r EXCEPT !.mains = Tail(r.mains)])

\* the next read of the query, while the other goroutine is at line
\* writerPc of rebuildCache: what the field holds, or the end of the program
\* when the read meets the write of the same map or slice
readStatement(g, r, writerPc) ==
    LET read ==
            IF r.pc \in {"path", "rel", "name"}
            THEN findPackageForFileRead(g, r)
            ELSE IF r.pc = "graph" THEN cachedImportsRead(g, r)
            ELSE doesPackageBelongToHandlerRead(g, r)
        mapWritten ==
            \/ r.pc = "path" /\ writerPc = "251"
            \/ r.pc = "rel"  /\ writerPc = "251"
                             /\ ~Rel(P(TRUE, Cwd), Abs(r.f)).err
            \/ r.pc = "name"  /\ writerPc = "255"
            \/ r.pc = "graph" /\ writerPc = "214"
        sliceWritten ==
            /\ r.pc \in {"isMain", "case1", "case2"}
            /\ writerPc \in {"277", "280"}
        stopped(a) == [answerRead(r, FALSE) EXCEPT !.pc = "fatal", !.answer = a]
    IN {read}
       \cup (IF mapWritten THEN {stopped(FatalRace)} ELSE {})
       \cup (IF sliceWritten THEN {stopped(FatalFault)} ELSE {})

ReadUnderWay == reading.pc \notin {"idle", "done", "fatal"}

\* the first goroutine enters rebuildCache; an answer of the second is taken
\* by its caller first, and a query under way has now met a rebuild
WriterBegin ==
    /\ last = NoCall
    /\ rebuilding.pc = "idle"
    /\ reading.pc \notin {"done", "fatal"}
    /\ cachedModule
    /\ \E h \in Handles : RoutedToRebuild(h)
    /\ \E n \in rebuildStatement(G, rebuilding) :
          /\ SetCache(n.g)
          /\ rebuilding' = n.w
    /\ reading' = IF ReadUnderWay THEN [reading EXCEPT !.raced = TRUE]
                  ELSE reading
    /\ UNCHANGED <<rootDir, diskFiles, diskBad, diskImports, listerOK, unloadable,
                   fsOps, last, mainsResult, imports, walk, removed, edited, replayed>>

\* the first goroutine executes its next statement
WriterStep ==
    /\ rebuilding.pc # "idle"
    /\ reading.pc # "fatal"
    /\ \E n \in rebuildStatement(G, rebuilding) :
          /\ SetCache(n.g)
          /\ rebuilding' = n.w
    /\ UNCHANGED <<rootDir, diskFiles, diskBad, diskImports, listerOK, unloadable,
                   fsOps, last, mainsResult, imports, walk, reading, removed, edited, replayed>>

\* the second goroutine calls ThisFileIsMine(h, f, "write") on a ready cache
\* and gets to findPackageForFile: steps 1 to 5 read no field but rootDir
ReaderBegin ==
    /\ last = NoCall
    /\ reading.pc = "idle"
    /\ cachedModule
    /\ \E h \in Handles, f \in UnitFiles :
          /\ Exists(Join(rootDir, h))
          /\ passesValidator(Abs(f))
          /\ TrimPrefix(Abs(f), rootDir) # h
          /\ reading' = [NoReading EXCEPT
                            !.pc = "path", !.h = h, !.f = f,
                            !.raced = rebuilding.pc # "idle"]
    /\ UNCHANGED <<cacheVars, diskFiles, diskBad, diskImports, listerOK, unloadable,
                   fsOps, last, mainsResult, imports, walk, removed, edited, replayed>>

\* the second goroutine makes its next read
ReaderStep ==
    /\ ReadUnderWay
    /\ reading' \in readStatement(G, reading, rebuilding.pc)
    /\ UNCHANGED <<cacheVars, diskFiles, diskBad, diskImports, listerOK, unloadable,
                   fsOps, last, mainsResult, imports, walk, removed, edited, replayed>>

\* the second goroutine's caller takes the answer
ReaderReturn ==
    /\ reading.pc = "done"
    /\ reading' = NoReading
    /\ UNCHANGED <<cacheVars, diskFiles, diskBad, diskImports, listerOK, unloadable,
                   fsOps, last, mainsResult, imports, walk, removed, edited, replayed>>

\* a write event of a file of the tree handled, or a change of the tree,
\* while neither goroutine is in a call
QueryAlone == /\ rebuilding.pc = "idle" /\ reading.pc = "idle"
              /\ \E h \in Handles, f \in UnitFiles : QueryOf(h, f, "write")
FsAlone    == /\ rebuilding.pc = "idle" /\ reading.pc = "idle"
              /\ (FsRemove \/ FsCreate)

NextRace == \/ QueryAlone
            \/ Return
            \/ FsAlone
            \/ WriterBegin
            \/ WriterStep
            \/ ReaderBegin
            \/ ReaderStep
            \/ ReaderReturn

SpecRace == Init /\ [][NextRace]_vars

\* ---------------------------------------- two handlers in one directory
\* The tree with a second main file in the directory of web/main.go, as
\* pwa/main.server.go and pwa/main.wasm.go of the real-world test are, and
\* the watcher calling with the handles of the two.

FWebWasm == File(<<"web", "main.wasm.go">>)
HWebWasm == P(FALSE, <<"web", "main.wasm.go">>)

TwinHandles  == {HWeb, HWebWasm}
TwinFileArgs == {FWebMain, FWebWasm, FLib}

InitTwin ==
    /\ \E a \in RootArgs :
          /\ rootDir           = New(a).rootDir
          /\ cachedModule      = New(a).g.cachedModule
          /\ packageCache      = New(a).g.packageCache
          /\ dependencyGraph   = New(a).g.dependencyGraph
          /\ reverseDeps       = New(a).g.reverseDeps
          /\ filePathToPackage = New(a).g.filePathToPackage
          /\ fileToPackages    = New(a).g.fileToPackages
          /\ mainPackages      = New(a).g.mainPackages
    /\ diskFiles   = AllFiles \cup {FWebWasm}
    /\ diskBad     = {}
    /\ diskImports = DiskImports0
    /\ listerOK    = TRUE
    /\ unloadable  = {}
    /\ fsOps       = 0
    /\ last        = NoCall
    /\ mainsResult = <<>>
    /\ imports = NoImports
    /\ walk = NoWalk
    /\ reading = NoReading
    /\ rebuilding  = NotRebuilding
    /\ removed     = {}
    /\ edited      = {}
    /\ replayed    = {}

QueryTwin ==
    /\ last = NoCall
    /\ \E h \in TwinHandles, f \in TwinFileArgs, ev \in Events :
       \E o \in ThisFileIsMine(G, h, f, ev) :
        /\ SetCache(o.g)
        /\ last' = [h |-> h, f |-> f, ev |-> ev, ok |-> o.ok, err |-> o.err]
        /\ UNCHANGED <<rootDir, diskFiles, diskBad, diskImports, listerOK,
                       unloadable, fsOps, mainsResult, imports, walk, reading, rebuilding, removed, edited,
                       replayed>>

NextTwin == \/ QueryTwin
            \/ Return
            \/ FsRemove \/ FsCreate \/ FsCorrupt \/ FsRepair

SpecTwin == InitTwin /\ [][NextTwin]_vars

\* ----------------------------------------------- cachedMainImportsPackage

\* the longest dependency list of a graph the search is tried on
MaxDeps == 2

\* dependency lists: up to MaxDeps units, none twice
DepLists == {d \in UNION {[1..n -> Units] : n \in 0..MaxDeps} :
                Cardinality(Range(d)) = Len(d)}

\* the graphs over the units: any set of units has an entry, each a
\* dependency list (chains, diamonds, cycles and self-imports among them)
Graphs == UNION {[S -> DepLists] : S \in SUBSET Units}

\* the name index of the engine: main.go in two units, as in the tree
GraphFileNames ==
    ("main.go" :> <<UApp, UWeb>>) @@ ("lib.go" :> <<ULib>>)
    @@ ("db.go" :> <<UDb>>)

\* an engine whose dependencyGraph is any of the graphs
InitGraph ==
    /\ rootDir           = New(P(TRUE, Cwd)).rootDir
    /\ cachedModule      = TRUE
    /\ packageCache      = EmptyMap
    /\ dependencyGraph   \in Graphs
    /\ reverseDeps       = EmptyMap
    /\ filePathToPackage = EmptyMap
    /\ fileToPackages    = GraphFileNames
    /\ mainPackages      = <<>>
    /\ diskFiles   = AllFiles
    /\ diskBad     = {}
    /\ diskImports = DiskImports0
    /\ listerOK    = TRUE
    /\ unloadable  = {}
    /\ fsOps       = 0
    /\ last        = NoCall
    /\ mainsResult = <<>>
    /\ imports     = NoImports
    /\ walk = NoWalk
    /\ reading = NoReading
    /\ rebuilding  = NotRebuilding
    /\ removed     = {}
    /\ edited      = {}
    /\ replayed    = {}

\* cachedMainImportsPackage(mainPath, targetPkg) on the graph as it is
QueryImports ==
    /\ imports = NoImports
    /\ \E mainPath \in Units, targetPkg \in Units :
          LET r == cachedImports(G, mainPath, targetPkg, {})
          IN imports' = [from  |-> mainPath,
                         to    |-> targetPkg,
                         found |-> cachedMainImportsPackage(G, mainPath,
                                                            targetPkg),
                         trail |-> r.trail]
    /\ UNCHANGED <<cacheVars, diskFiles, diskBad, diskImports, listerOK,
                   unloadable, fsOps, last, mainsResult, walk, reading, removed, edited,
                   replayed>>

\* invalidatePackageCache(fileName) on the graph as it is
InvalidateFile ==
    /\ last = NoCall
    /\ imports = NoImports
    /\ \E fileName \in DOMAIN GraphFileNames :
        /\ SetCache(invalidatePackageCache(G, fileName))
        /\ last' = [h |-> EmptyStr, f |-> P(FALSE, <<fileName>>),
                    ev |-> "invalidate", ok |-> FALSE, err |-> "nil"]
    /\ UNCHANGED <<rootDir, diskFiles, diskBad, diskImports, listerOK,
                   unloadable, fsOps, mainsResult, imports, walk, reading, rebuilding,
                   removed, edited, replayed>>

NextGraph == QueryImports \/ InvalidateFile

SpecGraph == InitGraph /\ [][NextGraph]_vars

\* ------------------------------------------- the traversals, call by call

\* the frames the goroutine stack has room for: a call beyond them is the
\* runtime's fatal "stack overflow"
MaxStack == 6

\* the units of the graphs the traversals are run on
WalkUnits == {UApp, ULib, UDb}

WalkDepLists == {d \in UNION {[1..n -> WalkUnits] : n \in 0..2} :
                    Cardinality(Range(d)) = Len(d)}

WalkGraphs == UNION {[S -> WalkDepLists] : S \in SUBSET WalkUnits}

\* the frame of a call for path: i is 0 on entry, then the index of the
\* dependency the loop of the call is at
Frame(path) == [path |-> path, i |-> 0]

\* the call on top of the stack returns r
pop(w, r) ==
    [w EXCEPT !.stack  = SubSeq(w.stack, 1, Len(w.stack) - 1),
              !.ret    = r,
              !.status = IF Len(w.stack) = 1 THEN "done" ELSE "running"]

\* the call on top of the stack calls itself for path
push(w, path) ==
    IF Len(w.stack) >= MaxStack THEN [w EXCEPT !.status = "overflow"]
    ELSE [w EXCEPT !.stack = Append(w.stack, Frame(path)), !.ret = "none"]

\* the loop of the call on top of the stack moves to its next dependency
advance(w) ==
    [w EXCEPT !.stack[Len(w.stack)].i = w.stack[Len(w.stack)].i + 1,
              !.ret = "none"]

\* one step of cachedImports: marked is the visited map
cachedImportsStep(g, w) ==
    LET f    == w.stack[Len(w.stack)]
        deps == g.dependencyGraph[f.path]
        v    == [w EXCEPT !.marked = w.marked \cup {f.path}]
    IN IF f.i = 0
       THEN IF f.path \in w.marked THEN pop(w, "false")
            ELSE IF f.path = w.target THEN pop(v, "true")
            ELSE IF Has(g.dependencyGraph, f.path) THEN advance(v)
            ELSE pop(v, "false")
       ELSE IF w.ret = "true" THEN pop(w, "true")
       ELSE IF w.ret = "false" THEN advance(w)
       ELSE IF f.i > Len(deps) THEN pop(w, "false")
       ELSE IF deps[f.i] = w.target THEN pop(w, "true")
       ELSE push(w, deps[f.i])

\* one step of imports (testImports off): the packages argument is the
\* loaded metadata, the map any is the target and the paths in marked
importsStep(g, w) ==
    LET f        == w.stack[Len(w.stack)]
        packages == g.packageCache
        any      == {w.target} \cup w.marked
    IN IF f.i = 0
       THEN IF f.path \in any THEN pop(w, "true")
            ELSE IF ~Has(packages, f.path) THEN pop(w, "false")
            ELSE advance(w)
       ELSE IF w.ret = "true"
       THEN pop([w EXCEPT !.marked = w.marked \cup {f.path}], "true")
       ELSE IF w.ret = "false" THEN advance(w)
       ELSE IF f.i > Len(packages[f.path].Imports) THEN pop(w, "false")
       ELSE push(w, packages[f.path].Imports[f.i])

\* a ready engine over any of the graphs: the metadata of each unit has the
\* imports the graph has for it
InitWalk ==
    /\ rootDir           = New(P(TRUE, Cwd)).rootDir
    /\ cachedModule      = TRUE
    /\ dependencyGraph   \in WalkGraphs
    /\ packageCache      = [u \in DOMAIN dependencyGraph |->
                               [Dir     |-> P(TRUE, Cwd \o <<u[2]>>),
                                Name    |-> "main",
                                GoFiles |-> {},
                                Imports |-> dependencyGraph[u]]]
    /\ reverseDeps       = EmptyMap
    /\ filePathToPackage = EmptyMap
    /\ fileToPackages    = EmptyMap
    /\ mainPackages      = <<>>
    /\ diskFiles   = AllFiles
    /\ diskBad     = {}
    /\ diskImports = DiskImports0
    /\ listerOK    = TRUE
    /\ unloadable  = {}
    /\ fsOps       = 0
    /\ last        = NoCall
    /\ mainsResult = <<>>
    /\ imports     = NoImports
    /\ walk        = NoWalk
    /\ reading = NoReading
    /\ rebuilding  = NotRebuilding
    /\ removed     = {}
    /\ edited      = {}
    /\ replayed    = {}

WalkFrame ==
    UNCHANGED <<cacheVars, diskFiles, diskBad, diskImports, listerOK,
                unloadable, fsOps, last, mainsResult, imports, reading, removed,
                edited, replayed>>

\* cachedMainImportsPackage(path, target), or imports(path, packages, any)
\* with any holding target, is called
WalkBegin ==
    /\ walk = NoWalk
    /\ reading = NoReading
    /\ \E kind \in {"cachedImports", "imports"},
          path \in WalkUnits, target \in WalkUnits :
          walk' = [kind |-> kind, target |-> target,
                   stack |-> <<Frame(path)>>, marked |-> {},
                   ret |-> "none", status |-> "running"]
    /\ WalkFrame

\* the traversal under way makes its next step
WalkStep ==
    /\ walk.status = "running"
    /\ walk' = IF walk.kind = "cachedImports" THEN cachedImportsStep(G, walk)
               ELSE importsStep(G, walk)
    /\ WalkFrame

NextWalk == WalkBegin \/ WalkStep

\* a traversal that can make a step makes it
SpecWalk == InitWalk /\ [][NextWalk]_vars /\ WF_vars(WalkStep)

\* ------------------------------------------------------------------ claims

\* a scan of the tree would succeed: the go tool lists the units and the
\* metadata of every listed unit loads
ScanWorks == listerOK /\ ~getPackages(listPackages.paths).err

\* a query has been answered
Answered == last.ev \in Events

\* the answer of the last query
LastAnswer == [ok |-> last.ok, err |-> last.err]

\* the last query was made with an entry handle whose main file is on disk
ValidHandle == last.h \in Handles /\ HandlerMain(last.h) \in diskFiles

\* the entry unit a handle stands for
EntryUnit(h) == UnitOf(HandlerMain(h))

\* C1: transitivity of ownership.  While nothing on disk has changed (so the
\* import structure is the one the tree started with), whichever queries came
\* before, a query of entry A for a file of unit C, where A imports B and B
\* imports C on disk, is answered (true, nil).
C1_Transitivity ==
    \A b \in Units :
        (/\ Answered
         /\ fsOps = 0
         /\ last.h \in Handles
         /\ last.f \in UnitFiles
         /\ b \in diskImports[EntryUnit(last.h)]
         /\ UnitOf(last.f) \in diskImports[b])
        => LastAnswer = Yes

\* C2: an entry point owns its own file.  A query of an entry handle for its
\* own main file, the file being on disk and a complete Go file and the go
\* tool working (list and load), is answered (true, nil) for every event in every cache state.
C2_EntryOwnsItsFile ==
    (/\ Answered
     /\ ValidHandle
     /\ last.f = HandlerMain(last.h)
     /\ last.f \notin diskBad
     /\ ScanWorks)
    => LastAnswer = Yes

\* C9: a query with an empty changed-file location or an empty entry handle
\* is answered false with an error, for every event and every cache state.
C9_EmptyInputRejected ==
    (Answered /\ (last.f = EmptyStr \/ last.h = EmptyStr))
    => (~last.ok /\ last.err # "nil")

\* an empty file location was turned down by a ready cache, and so was an
\* empty handle given with a file the cache knows
C9_Witness ==
    /\ cachedModule
    /\ Answered
    /\ ~last.ok /\ last.err # "nil"
    /\ \/ last.f = EmptyStr /\ last.h = HApp
       \/ last.h = EmptyStr /\ last.f = FLib

\* C10: a query whose entry handle names a main file that is not on disk is
\* answered false with an error, whatever the changed file and the event, also
\* when the cache attributes the changed file's unit to that entry.
C10_MissingHandlerMainRejected ==
    (/\ Answered
     /\ last.h \in Handles
     /\ HandlerMain(last.h) \notin diskFiles)
    => (~last.ok /\ last.err # "nil")

\* the main file of app is gone from disk, the ready cache still holds the
\* import of lib by app, and the query of app for lib's file got the error
C10_Witness ==
    /\ Answered
    /\ last.h = HApp /\ last.f = FLib
    /\ FAppMain \notin diskFiles
    /\ cachedModule
    /\ cachedMainImportsPackage(G, UApp, ULib)
    /\ DirIsHandlers(G, UApp, Dir(HApp))
    /\ ~last.ok /\ last.err = "handler main file does not exist"

\* the disk is the tree it started as, and the go tool works
DiskIntact == diskFiles = AllFiles /\ diskBad = {} /\ ScanWorks

\* C3: dynamic dependency detection.  Entry E's main file was edited on disk to
\* import unit D while the ready cache did not give D's file to E, and a write
\* event of E's main file was then answered (true, nil): from then on, the
\* disk not changing, every query of E for a file of D is answered true.
C3_DynamicDependency ==
    \A e \in replayed :
        (/\ Answered
         /\ DiskIntact
         /\ last.h = HandleOf(e[1])
         /\ last.f \in FilesOf(e[2]))
        => last.ok

\* C4: disambiguation of same-named files.  Nothing on disk having changed,
\* a write query for the main file of entry E1 is answered true to E1's handle
\* and false to the handle of every other entry E2 (both have a main.go).
C4_Disambiguation ==
    \A h1 \in Handles :
        (/\ Answered
         /\ fsOps = 0
         /\ last.ev = "write"
         /\ last.f = HandlerMain(h1)
         /\ last.h \in Handles)
        => IF last.h = h1 THEN last.ok ELSE ~last.ok

NonEntryFiles == UnitFiles \ {File(h.segs) : h \in Handles}

\* C6: once a remove event of file F has been answered, every later query
\* that names F is answered (false, nil) until F is created again.  Checked
\* for the queries the claim can be meant for: write and remove events, the
\* handle's main file is on disk, F is the main file of no entry, and the
\* validator lets F through, so that the answer comes from the indexes the
\* remove event should have taken F out of.
C6_RemovedNotOwned ==
    (/\ Answered
     /\ ValidHandle
     /\ last.f \in removed \cap NonEntryFiles
     /\ last.ev \in {"write", "remove"}
     /\ (Ext(Base(last.f)) = ".go" => passesValidator(last.f)))
    => LastAnswer = No

\* C7: non-interference.  Whatever event of a non-entry file of unit U is
\* processed, for every entry handle and every file of a unit other than U
\* the answers after the processing are the answers before it (they are
\* when the processing leaves the cache as it was: the answers are a function
\* of the cache and the disk).
C7_NonInterference ==
    (last = NoCall) =>
        LET before == [h \in Handles, f \in UnitFiles, ev \in Events |->
                          Answers(G, h, f, ev)]
        IN \A h0 \in Handles, f0 \in NonEntryFiles, ev0 \in Events :
             \A o \in ThisFileIsMine(G, h0, f0, ev0) :
                \/ o.g = G
                \/ \A h \in Handles, f \in UnitFiles \ FilesOf(UnitOf(f0)) :
                      \A ev \in Events :
                          Answers(o.g, h, f, ev) = before[h, f, ev]

\* a create event of lib.go was processed for app, and app still owns db.go
C7_Witness ==
    /\ Answered
    /\ last.h = HApp /\ last.f = FLib /\ last.ev = "create"
    /\ LastAnswer = Yes
    /\ Answers(G, HApp, FDb, "write") = {Yes}

\* C8: idempotence.  From every cache state, for every entry handle, file and
\* event, the same query made twice in a row, the disk not changing, gets the
\* same (bool, error) both times.
C8_Idempotence ==
    (last = NoCall) =>
        \A h \in Handles, f \in AllFiles, ev \in Events :
            \A o1 \in ThisFileIsMine(G, h, f, ev) :
                \A o2 \in ThisFileIsMine(o1.g, h, f, ev) :
                    o2.ok = o1.ok /\ o2.err = o1.err

\* a step that is a call of ThisFileIsMine: last' is the call and its answer
QueryStep == last = NoCall /\ last' # NoCall

\* the call (h, f) gets past the input checks, the look at the handler's main
\* file and the validator: it needs the indexes
ReachesIndexes(h, f) ==
    /\ h # EmptyStr /\ f # EmptyStr
    /\ Exists(Join(rootDir, h))
    /\ (Ext(Base(f)) = ".go" => passesValidator(f))

\* the cache of a new engine: not built, every index empty
Uninitialized ==
    /\ ~cachedModule
    /\ packageCache = EmptyMap /\ dependencyGraph = EmptyMap
    /\ reverseDeps = EmptyMap /\ filePathToPackage = EmptyMap
    /\ fileToPackages = EmptyMap /\ mainPackages = <<>>

\* C11: cache lifecycle.  A new engine is uninitialized; a query made while
\* the cache is not built builds it exactly when it needs the indexes and the
\* scan works (and leaves the engine as new otherwise); once the cache is
\* built no query of any event makes it not built again.
C11_Lifecycle ==
    /\ Uninitialized
    /\ [][/\ cachedModule => cachedModule'
          /\ (QueryStep /\ ~cachedModule) =>
                /\ cachedModule' <=> (ReachesIndexes(last'.h, last'.f) /\ ScanWorks)
                /\ ~cachedModule' => Uninitialized'
          /\ ~QueryStep => UNCHANGED cachedModule]_vars

\* a rename query of an entry's own main file was answered by a cache that an
\* earlier remove query had already worked on: the cache is still built
C11_Witness ==
    /\ Answered
    /\ cachedModule
    /\ removed # {}
    /\ IsAbs(rootDir)
    /\ last.ev = "rename" /\ last.h \in Handles /\ last.f = HandlerMain(last.h)
    /\ LastAnswer = Yes

\* the caches a scan of the disk as it is may build
FreshScans == {r.g : r \in rebuildCache(G)}

\* the step is a call with event ev of an entry handle for its own main file
\* that gets as far as the indexes
OwnMainStep(ev) ==
    /\ QueryStep
    /\ last'.ev = ev
    /\ last'.h \in Handles
    /\ last'.f = HandlerMain(last'.h)
    /\ ReachesIndexes(last'.h, last'.f)

\* C12: a write query of an entry handle for its own main file rebuilds the
\* whole cache before it is answered true: the go tool working, the cache
\* after the call is one a fresh scan of the disk builds, whether the root
\* directory is absolute or relative.
C12_WriteOnMainRebuilds ==
    [][(OwnMainStep("write") /\ ScanWorks) =>
           /\ last'.ok /\ last'.err = "nil"
           /\ G' \in FreshScans]_vars

\* the units reached from the units of S over the edges of the cached graph
RECURSIVE ReachedFrom(_)
ReachedFrom(S) ==
    LET more == S \cup UNION {Range(dependencyGraph[u]) :
                                 u \in S \cap DOMAIN dependencyGraph}
    IN IF more = S THEN S ELSE ReachedFrom(more)

\* the unit the cache resolves the file of the last call to
ResolvedUnit ==
    (CHOOSE r \in findPackageForFile(G, last.f, Base(last.f)) : TRUE).pkg

\* C13: a query for a file that is not the entry's own main file and that the
\* cache resolves to unit F is answered true exactly when the unit E of the
\* entry handle is F or F is reached from E over the edges of the dependency
\* graph as the cache holds them, in every cache state.
C13_OwnedIffReachable ==
    (/\ Answered
     /\ last.h \in Handles
     /\ last.f # HandlerMain(last.h)
     /\ last.err = "nil"
     /\ ReachesIndexes(last.h, last.f)
     /\ ResolvedUnit # NoPkg)
    => (last.ok <=> ResolvedUnit \in ReachedFrom({EntryUnit(last.h)}))

\* C14: a create query for a file F of a unit on disk, the go tool working,
\* puts F into both file indexes, and a unit that the unit index and the
\* dependency graph did not hold is in both after the call.
C14_CreateAddsUnit ==
    [][(/\ QueryStep
        /\ last'.ev = "create"
        /\ last'.h \in Handles
        /\ last'.f \in UnitFiles
        /\ ReachesIndexes(last'.h, last'.f)
        /\ ScanWorks
        /\ cachedModule
        /\ ~Has(packageCache, UnitOf(last'.f))
        /\ ~Has(dependencyGraph, UnitOf(last'.f)))
       => /\ last'.err = "nil"
          /\ Has(filePathToPackage', last'.f)
          /\ contains(Get(fileToPackages', Base(last'.f)), UnitOf(last'.f))
          /\ Has(packageCache', UnitOf(last'.f))
          /\ Has(dependencyGraph', UnitOf(last'.f))]_vars

\* the files of f's unit other than f
Siblings(f) == {x \in UnitFiles : UnitOf(x) = UnitOf(f) /\ x # f}

\* C15: a remove query that reaches handleFileRemove (the entry's own main
\* file F, absolute root, F indexed) takes F out of both file indexes; F's unit leaves the unit index and the dependency graph when F
\* was its only file, and every other unit keeps its entry and its edges.
C15_RemoveDropsFile ==
    [][(/\ QueryStep
        /\ last'.ev = "remove"
        /\ last'.h \in Handles
        /\ last'.f = HandlerMain(last'.h)
        /\ IsAbs(rootDir)
        /\ ReachesIndexes(last'.h, last'.f)
        /\ ScanWorks
        /\ cachedModule
        /\ Has(filePathToPackage, last'.f))
       => /\ last'.err = "nil"
          /\ ~Has(filePathToPackage', last'.f)
          /\ ~contains(Get(fileToPackages', Base(last'.f)), UnitOf(last'.f))
          /\ Siblings(last'.f) = {} =>
                /\ ~Has(packageCache', UnitOf(last'.f))
                /\ ~Has(dependencyGraph', UnitOf(last'.f))
          /\ \A u \in Units \ {UnitOf(last'.f)} :
                /\ Has(packageCache, u) => Has(packageCache', u)
                /\ Has(dependencyGraph, u) =>
                      /\ Has(dependencyGraph', u)
                      /\ dependencyGraph'[u] = dependencyGraph[u]]_vars

\* the remove event on a file and then, unless it failed, the create event
RemoveThenCreate(g, fileName, filePath, handlerMainFile) ==
    UNION {IF r.err THEN {r}
           ELSE updateCacheForFileWithContext(
                    r.g, fileName, filePath, "create", handlerMainFile)
           : r \in updateCacheForFileWithContext(
                       g, fileName, filePath, "remove", handlerMainFile)}

\* C16: from a ready cache, a rename query that reaches the cache update
\* (the entry's own main file, absolute root) ends with a cache and an error
\* outcome that the remove event followed by the create event on the same
\* file produces from the same cache.
C16_RenameIsRemoveThenCreate ==
    [][(OwnMainStep("rename") /\ IsAbs(rootDir) /\ cachedModule)
       => [err |-> last'.err # "nil", g |-> G']
              \in RemoveThenCreate(G, Base(last'.f), last'.f, last'.h)]_vars

\* a rename of the entry's own main file answered from a cache that an
\* earlier remove query had already worked on; the file is indexed again
C16_Witness ==
    /\ Answered
    /\ last.ev = "rename"
    /\ last.h \in Handles
    /\ last.f = HandlerMain(last.h)
    /\ IsAbs(rootDir)
    /\ removed # {}
    /\ last.err = "nil"
    /\ Has(filePathToPackage, last.f)

\* C17: on a ready cache, a write query for an indexed file that is no
\* entry's own main file removes the packageCache entry of the file's unit,
\* keeps every other packageCache entry, and leaves dependencyGraph,
\* reverseDeps, both file indexes and mainPackages as they were.
C17_WriteDropsUnitMetadataOnly ==
    [][(/\ QueryStep
        /\ last'.ev = "write"
        /\ last'.h \in Handles
        /\ last'.f \in NonEntryFiles
        /\ ReachesIndexes(last'.h, last'.f)
        /\ cachedModule
        /\ Has(filePathToPackage, last'.f)
        /\ Has(packageCache, UnitOf(last'.f)))
       => /\ ~Has(packageCache', UnitOf(last'.f))
          /\ \A u \in Units \ {UnitOf(last'.f)} :
                /\ Has(packageCache, u) <=> Has(packageCache', u)
                /\ Has(packageCache, u) => packageCache'[u] = packageCache[u]
          /\ UNCHANGED <<dependencyGraph, reverseDeps, filePathToPackage,
                         fileToPackages, mainPackages>>]_vars

\* C18: on a ready cache the go tool is run over the whole tree by a write
\* query for the entry's own main file only.  A query that runs it fails
\* with "cache update failed" when the tool is out of order, so no other
\* query on a ready cache ends with that error.
C18_ScanOnlyOnMainWrite ==
    [][(/\ QueryStep
        /\ cachedModule
        /\ ~(last'.ev = "write" /\ last'.f = HandlerMain(last'.h)))
       => last'.err # "cache update failed"]_vars

\* the units the go tool lists now
Listed == Range(listPackages.paths)

\* C19: the first scan, made for a query about a file that is not the
\* handle's own main file, with the go tool listing the units and the metadata
\* of one listed unit failing to load: the scan succeeds, the cache is ready,
\* the failing unit is in no index and every other listed unit is in the unit
\* index, the dependency graph and the file indexes.
C19_UnitFailureTolerated ==
    [][(/\ QueryStep
        /\ ~cachedModule
        /\ last'.h \in Handles
        /\ last'.f \in UnitFiles
        /\ last'.f # HandlerMain(last'.h)
        /\ ReachesIndexes(last'.h, last'.f)
        /\ listerOK
        /\ Listed \cap unloadable # {}
        /\ Listed \ unloadable # {})
       => /\ last'.err = "nil"
          /\ cachedModule'
          /\ \A u \in Listed \cap unloadable :
                ~Has(packageCache', u) /\ ~Has(dependencyGraph', u)
          /\ \A u \in Listed \ unloadable :
                /\ Has(packageCache', u)
                /\ Has(dependencyGraph', u)
                /\ \A f \in FilesOf(u) \cap diskFiles :
                      /\ Has(filePathToPackage', f)
                      /\ contains(Get(fileToPackages', Base(f)), u)]_vars

\* the query of the step is a write of the handle's own main file that the
\* engine routes to the rebuild
RebuildStep == OwnMainStep("write") /\ IsAbs(rootDir)

\* C20: a query that needs the initial scan, or the rebuild of a ready cache,
\* while the go tool fails to list the tree or to load a listed unit returns
\* (false, error) and leaves every cache field as it was; a query on a ready
\* cache that is not routed to the rebuild adds no unit to the unit index or
\* to the dependency graph and leaves mainPackages alone (it does not scan
\* again).
C20_ScanFailureLeavesCache ==
    [][/\ (/\ QueryStep
           /\ last'.h \in Handles
           /\ ReachesIndexes(last'.h, last'.f)
           /\ ~ScanWorks
           /\ (~cachedModule \/ RebuildStep))
          => /\ ~last'.ok
             /\ last'.err # "nil"
             /\ G' = G
       /\ (QueryStep /\ cachedModule /\ ~RebuildStep)
          => /\ DOMAIN packageCache' \subseteq DOMAIN packageCache
             /\ DOMAIN dependencyGraph' \subseteq DOMAIN dependencyGraph
             /\ mainPackages' = mainPackages]_vars

\* the rebuild of a ready, non-empty cache failed on a unit that does not
\* load, the go tool listing the tree
C20_Witness ==
    /\ Answered
    /\ last.ev = "write"
    /\ last.h \in Handles
    /\ last.f = HandlerMain(last.h)
    /\ IsAbs(rootDir)
    /\ cachedModule
    /\ packageCache # EmptyMap
    /\ listerOK /\ ~ScanWorks
    /\ ~last.ok /\ last.err # "nil"

\* the query of the step passed the input checks and the check of the
\* handler's main file
PassesChecks ==
    /\ QueryStep
    /\ last'.h # EmptyStr /\ last'.f # EmptyStr
    /\ Exists(Join(rootDir, last'.h))

\* C21: a query for a .go file that the validator turns down is answered
\* (false, nil) and the cache is not touched (a validator that fails instead
\* ends the query with (false, file validation failed)); a query for a file
\* of another extension, on disk or not, is answered by the ownership
\* resolution.
C21_InvalidGoFileSkipped ==
    [][PassesChecks =>
          IF Ext(Base(last'.f)) = ".go"
          THEN ~passesValidator(last'.f) =>
                  /\ ~last'.ok
                  /\ last'.err = "nil"
                        \/ /\ last'.err = "file validation failed"
                           /\ [valid |-> FALSE, err |-> TRUE]
                                  \in IsValidGoFile(last'.f)
                  /\ G' = G
          ELSE [ok |-> last'.ok, err |-> last'.err, g |-> G']
                  \in resolveOwnership(G, last'.h, Abs(last'.f), last'.ev)]_vars

\* the entry's own main file was caught half-written and skipped
C21_Witness ==
    /\ Answered
    /\ last.h = HWeb /\ last.f = FWebMain
    /\ FWebMain \in diskFiles \cap diskBad
    /\ LastAnswer = No

\* C22: of two handlers whose main files share a directory, neither owns the
\* main file of the other: a write query of one handle for the main file of
\* the other that ends without error is answered false.
C22_TwinMainNotOwned ==
    (/\ Answered
     /\ last.ev = "write"
     /\ last.h \in TwinHandles
     /\ last.f \in {HandlerMain(h) : h \in TwinHandles \ {last.h}}
     /\ last.err = "nil")
    => ~last.ok

\* GoFileComesFromMain has answered without error
MainsAnswered == last.ev = "mains" /\ last.err = "nil"

\* the units the file index lists for the file name that was asked
Candidates == Range(Get(fileToPackages, Base(last.f)))

\* C23: the list GoFileComesFromMain returns holds exactly the entry units
\* from which a unit listed for the file name is reached over the edges of
\* the dependency graph (the entry itself included), each once; it is empty
\* when no unit is listed for the name.
C23_MainsOfFile ==
    MainsAnswered =>
        /\ Range(mainsResult) =
              {m \in Range(mainPackages) : Candidates \cap ReachedFrom({m}) # {}}
        /\ Cardinality(Range(mainsResult)) = Len(mainsResult)
        /\ Candidates = {} => mainsResult = <<>>

\* db.go comes from app alone, through lib; both entries are indexed
C23_Witness ==
    /\ MainsAnswered
    /\ Base(last.f) = "db.go"
    /\ UWeb \in Range(mainPackages)
    /\ mainsResult = <<UApp>>

\* C24: a write query for the entry's own main file that the engine routes
\* to the rescan, on a ready cache with the go tool working, replaces the
\* outgoing edges of the entry unit by those of its files on disk and leaves
\* the unit index entry, the edges and the file index entries of every other
\* unit as they were.
C24_OnlyEntryRescanned ==
    [][(RebuildStep /\ cachedModule /\ ScanWorks) =>
          LET e == EntryUnit(last'.h) IN
          /\ last'.ok /\ last'.err = "nil"
          /\ Has(dependencyGraph', e)
          /\ Range(dependencyGraph'[e]) = diskImports[e]
          /\ \A u \in Units \ {e} :
                /\ Has(packageCache, u) <=> Has(packageCache', u)
                /\ Has(packageCache, u) => packageCache'[u] = packageCache[u]
                /\ Has(dependencyGraph, u) <=> Has(dependencyGraph', u)
                /\ Has(dependencyGraph, u) => dependencyGraph'[u] = dependencyGraph[u]
          /\ \A f \in UnitFiles \ FilesOf(e) :
                /\ Has(filePathToPackage, f) <=> Has(filePathToPackage', f)
                /\ contains(Get(fileToPackages, Base(f)), UnitOf(f))
                      <=> contains(Get(fileToPackages', Base(f)), UnitOf(f))]_vars

\* the second goroutine's query has ended: with an answer, or with the program
ReadEnded == reading.pc \in {"done", "fatal"}

\* rebuildCache gone through a statement at a time, by a goroutine on its
\* own, leaves a cache that rebuildCache in one piece may leave
RebuildStatementsAsRebuildCache ==
    [][rebuilding.pc = "285"
       => G' \in {x.g : x \in {y \in rebuildCache(G) : ~y.err}}]_vars

\* the answers the two calls give one after the other: the reader on cache
\* g, the one the rebuild began with, or on a cache the rebuild ends with
SerialAnswers(g, h, f) ==
    Answers(g, h, f, "write")
    \cup UNION {Answers(x.g, h, f, "write")
                : x \in {x \in rebuildCache(g) : ~x.err}}

\* C25: a query gives an answer that the two calls made one after the other,
\* in either order, would not give only when it read the fields while the
\* other goroutine was inside rebuildCache, the cache marked ready all the
\* while; a query that met no rebuild answers as a serial call on the cache
\* does (no rebuild has begun since it ended, so the cache is the one it read).
C25_ReadDuringRebuild ==
    ReadEnded =>
        /\ cachedModule
        /\ \/ reading.raced
           \/ reading.answer \in Answers(G, reading.h, reading.f, "write")

\* app asked for lib.go and was told (false, nil) while the rebuild of the
\* other goroutine, past line 214 for none of the packages, had replaced
\* packageCache and emptied the dependency graph; either order of the two
\* calls answers (true, nil)
C25_Witness ==
    /\ reading.pc = "done"
    /\ reading.raced
    /\ reading.h = HApp /\ reading.f = FLib
    /\ reading.answer = No
    /\ cachedModule
    /\ rebuilding.pc = "214"
    /\ packageCache = rebuilding.packages
    /\ packageCache # rebuilding.from.packageCache
    /\ dependencyGraph = EmptyMap
    /\ SerialAnswers(rebuilding.from, HApp, FLib) = {Yes}

\* C26: determinism.  A fresh engine on a given tree has one possible answer
\* to each first query (two engines on that tree, asked the same, agree),
\* whatever the order in which the units are enumerated while the indexes
\* are built.
C26_Deterministic ==
    (last = NoCall /\ ~cachedModule) =>
        \A h \in Handles, f \in AllFiles, ev \in Events :
            Cardinality(Answers(G, h, f, ev)) = 1

\* C27: the file indexes.  Every path of the path index (a path below
\* rootDir, relative when rootDir is) is mapped to the unit whose directory
\* holds the file, and that unit is listed under the file's base name in the
\* name index, also when files of other units have the same name.
C27_FileIndex ==
    \A p \in DOMAIN filePathToPackage :
        /\ filePathToPackage[p] = UnitOf(Abs(p))
        /\ contains(Get(fileToPackages, Base(p)), filePathToPackage[p])

\* after a rename of app's main file, handled on a cache an earlier remove
\* had worked on, the two main.go are indexed and both units are listed
C27_Witness ==
    /\ Answered
    /\ last.ev = "rename" /\ last.h = HApp /\ last.f = FAppMain
    /\ last.err = "nil"
    /\ removed # {}
    /\ {FAppMain, FWebMain} \subseteq DOMAIN filePathToPackage
    /\ Range(Get(fileToPackages, "main.go")) = {UApp, UWeb}

\* the units findPackageForFile may return for file f on the cache as it is
Resolved(f) == {r.pkg : r \in findPackageForFile(G, f, Base(f))}

\* the key under which the path index holds f: f itself, else f relative to
\* the working directory; <<>> when neither is a key
PathKey(f) ==
    LET rel == Rel(P(TRUE, Cwd), f)
    IN IF Has(filePathToPackage, f) THEN <<f>>
       ELSE IF ~rel.err /\ Has(filePathToPackage, rel.path) THEN <<rel.path>>
       ELSE <<>>

\* C28: on a ready cache findPackageForFile returns, for every file, the unit
\* the path index has for its path (exact, or relative to the working
\* directory) when there is one; otherwise the first unit the name index
\* lists for its base name; otherwise no unit.
C28_LookupOrder ==
    cachedModule =>
        \A f \in AllFiles :
            Resolved(f) =
                IF PathKey(f) # <<>> THEN {filePathToPackage[PathKey(f)[1]]}
                ELSE IF Get(fileToPackages, Base(f)) # <<>>
                THEN {Head(Get(fileToPackages, Base(f)))}
                ELSE {NoPkg}

\* web's main.go, asked for after a remove event took it out of the path
\* index, resolved to app, the first unit listed for main.go; and lib.go
\* resolved by its path
C28_Witness ==
    /\ Answered
    /\ cachedModule
    /\ last.f = FWebMain /\ last.h = HApp
    /\ PathKey(FWebMain) = <<>>
    /\ Resolved(FWebMain) = {UApp}
    /\ PathKey(FLib) # <<>>
    /\ Resolved(FLib) = {ULib}
    /\ LastAnswer = Yes

\* map m has for key k after the step what it had before it
SameEntry(m, mAfter, k) ==
    /\ Has(m, k) <=> Has(mAfter, k)
    /\ Has(m, k) => mAfter[k] = m[k]

\* C29: a create or a remove query that reaches handleFileCreate or
\* handleFileRemove (the entry's own main file F, absolute root, ready cache,
\* the go tool working) changes, in the two file indexes, only the entries of
\* F (its path, its base name), and leaves the packageCache, dependencyGraph
\* and reverseDeps entries of every unit other than F's as they were, the
\* units that have a file of F's base name included.
C29_OnlyOwnEntriesChange ==
    [][(/\ QueryStep
        /\ last'.ev \in {"create", "remove"}
        /\ last'.h \in Handles
        /\ last'.f = HandlerMain(last'.h)
        /\ IsAbs(rootDir)
        /\ ReachesIndexes(last'.h, last'.f)
        /\ ScanWorks
        /\ cachedModule)
       => /\ \A p \in (DOMAIN filePathToPackage \cup DOMAIN filePathToPackage')
                          \ {last'.f} :
                SameEntry(filePathToPackage, filePathToPackage', p)
          /\ \A n \in (DOMAIN fileToPackages \cup DOMAIN fileToPackages')
                          \ {Base(last'.f)} :
                SameEntry(fileToPackages, fileToPackages', n)
          /\ \A u \in Units \ {UnitOf(last'.f)} :
                /\ SameEntry(packageCache, packageCache', u)
                /\ SameEntry(dependencyGraph, dependencyGraph', u)
                /\ SameEntry(reverseDeps, reverseDeps', u)]_vars

\* a cachedMainImportsPackage call has been made
ImportsAnswered == imports # NoImports

\* C30: cachedMainImportsPackage(from, to) returns true exactly when to is
\* from or is reached from from over the edges of dependencyGraph, on every
\* graph (diamonds and cycles included), and the search marks no unit visited
\* twice in a call.
C30_SearchIsReachability ==
    ImportsAnswered =>
        /\ imports.found <=> imports.to \in ReachedFrom({imports.from})
        /\ Cardinality(Range(imports.trail)) = Len(imports.trail)

\* a diamond (app imports lib and web, both import db) closed to a cycle by
\* db importing app: web reaches lib round the cycle, and the search for it
\* went through web, db and app
C30_Witness ==
    /\ ImportsAnswered
    /\ dependencyGraph = (UApp :> <<ULib, UWeb>>) @@ (ULib :> <<UDb>>)
                         @@ (UWeb :> <<UDb>>) @@ (UDb :> <<UApp>>)
    /\ imports.from = UWeb /\ imports.to = ULib
    /\ imports.found
    /\ imports.trail = <<UWeb, UDb, UApp>>

\* C31: every traversal of the import graph, the cached one (cachedImports)
\* and the one of FindReverseDeps (imports), returns on every graph, cyclic
\* ones included: a traversal under way ends with an answer.
C31_TraversalsTerminate ==
    (walk.status = "running") ~> (walk.status = "done")

\* an invalidatePackageCache call has been made on the graph
Invalidated == last.ev = "invalidate"

\* C32: invalidatePackageCache for a file name whose units are Us deletes the
\* edge list of each unit of Us and takes the units of Us out of the edge
\* list of every other unit: those lists lose exactly the edges that point
\* into Us and keep their other edges, in their order.
C32_RemoveUnitPrunesEdges ==
    [][(last = NoCall /\ last'.ev = "invalidate") =>
          LET Us == Range(Get(fileToPackages, last'.f.segs[1]))
          IN /\ DOMAIN dependencyGraph' = DOMAIN dependencyGraph \ Us
             /\ \A o \in DOMAIN dependencyGraph' :
                   dependencyGraph'[o] =
                       SelectSeq(dependencyGraph[o], LAMBDA x : x \notin Us)]_vars

\* lib.go invalidated on a graph where app imported lib and db, and db
\* imported lib and app: lib is gone and the two lists keep their other edges
C32_Witness ==
    /\ Invalidated
    /\ last.f = P(FALSE, <<"lib.go">>)
    /\ dependencyGraph = (UApp :> <<UDb>>) @@ (UDb :> <<UApp>>)
                         @@ (UWeb :> <<>>)

\* C33: in every ready state reverseDeps is the inverse of dependencyGraph:
\* unit P is listed in reverseDeps[Q] exactly when Q is listed in
\* dependencyGraph[P].
C33_ReverseIsInverse ==
    cachedModule =>
        \A p \in Units, q \in Units :
            contains(Get(reverseDeps, q), p)
                <=> contains(Get(dependencyGraph, p), q)

\* the key of the path index for file f of a unit: the unit's directory as
\* go/build reports it (below rootDir) joined with the base name
KeyOf(f) == Join(Join(rootDir, UnitRel(UnitOf(f))), P(FALSE, <<Base(f)>>))

\* C34: in every ready state the two file indexes agree: the path of a file
\* F of unit U is mapped to U in filePathToPackage exactly when U is listed
\* in fileToPackages under F's base name.
C34_FileIndexesAgree ==
    cachedModule =>
        \A f \in UnitFiles :
            (Has(filePathToPackage, KeyOf(f))
                /\ filePathToPackage[KeyOf(f)] = UnitOf(f))
            <=> contains(Get(fileToPackages, Base(f)), UnitOf(f))

\* C35: in every ready state every unit of mainPackages is a key of
\* packageCache, and packageCache and dependencyGraph have the same keys.
C35_IndexCoherence ==
    cachedModule =>
        /\ Range(mainPackages) \subseteq DOMAIN packageCache
        /\ DOMAIN packageCache = DOMAIN dependencyGraph

\* C36: ThisFileIsMine never returns true together with an error: an answer
\* that carries an error is false.
C36_NoTrueWithError ==
    (Answered /\ last.err # "nil") => ~last.ok

\* the write of web's own main file answered (false, cache update failed)
\* while the go tool was out of order
C36_Witness ==
    /\ Answered
    /\ last.h = HWeb /\ last.f = FWebMain /\ last.ev = "write"
    /\ last.err = "cache update failed"
    /\ ~last.ok
    /\ ~ScanWorks

\* C37: a query turned down before ownership resolution (an empty argument,
\* the entry's main file missing, a .go file the validator rejects) is
\* answered false and leaves every cache field as it was: a new engine stays
\* uninitialized, a ready one keeps its indexes.
C37_RejectedQueryLeavesState ==
    [][(/\ QueryStep
        /\ last'.ev \in Events
        /\ ~ReachesIndexes(last'.h, last'.f))
       => /\ ~last'.ok
          /\ G' = G]_vars

\* a new engine asked by app for lib.go while app's main file is off the
\* disk: turned down, and still as new
C37_Witness ==
    /\ Answered
    /\ last.h = HApp /\ last.f = FLib
    /\ FAppMain \notin diskFiles
    /\ last.err = "handler main file does not exist"
    /\ Uninitialized

\* C38: on a ready cache a query of an entry handle for a file that is not
\* the handle's own main file changes no cache field, whatever the event:
\* packageCache, dependencyGraph, reverseDeps, both file indexes and
\* mainPackages are after the call what they were before it.
C38_OtherFilesReadOnly ==
    [][(/\ QueryStep
        /\ last'.ev \in Events
        /\ cachedModule
        /\ last'.h \in Handles
        /\ last'.f # HandlerMain(last'.h))
       => G' = G]_vars

\* the remove of lib.go asked of app on a ready cache: owned, and lib still
\* in the unit index and in the path index
C38_Witness ==
    /\ Answered
    /\ cachedModule
    /\ last.ev = "remove" /\ last.h = HApp /\ last.f = FLib
    /\ LastAnswer = Yes
    /\ Has(packageCache, ULib)
    /\ Has(filePathToPackage, FLib)

\* C39: a query of an entry handle for its own main file (absolute root)
\* with an event string other than write, create, remove and rename, "delete"
\* included, is answered (true, nil) by a cache update that does nothing: a
\* ready cache keeps every field, so the file stays in both file indexes; a
\* cache not yet built is built by the lazy initialization and nothing more.
C39_UnknownEventIsNoOp ==
    [][(/\ QueryStep
        /\ last'.ev \in OtherEvents
        /\ last'.h \in Handles
        /\ last'.f = HandlerMain(last'.h)
        /\ IsAbs(rootDir)
        /\ ReachesIndexes(last'.h, last'.f)
        /\ (cachedModule \/ ScanWorks))
       => /\ last'.ok /\ last'.err = "nil"
          /\ IF cachedModule THEN G' = G ELSE G' \in FreshScans
          /\ updateCacheForFileWithContext(G, Base(last'.f), last'.f,
                                           last'.ev, last'.h)
                 = {[err |-> FALSE, g |-> r.g] : r \in ensureCacheInitialized(G)}]_vars

\* "delete" sent for app's own main file on a ready cache: owned, and the
\* file still in both file indexes
C39_Witness ==
    /\ last.ev = "delete"
    /\ last.h = HApp /\ last.f = FAppMain
    /\ IsAbs(rootDir)
    /\ cachedModule
    /\ last.ok /\ last.err = "nil"
    /\ Has(filePathToPackage, FAppMain)
    /\ contains(Get(fileToPackages, "main.go"), UApp)

====
